---- MODULE Spec2Model ----
(***************************************************************************)
(* Transfer / settlement state machine of the smart-contract daemon:       *)
(* handlers/transfer.go (TransferRequest, TransferTimeout,                 *)
(* SettlementResponse, respondTransferReject and their helpers) and        *)
(* handlers/message.go (processSettlementRequest,                          *)
(* processSigRequestSettlement, ProcessRejection and their helpers).       *)
(*                                                                         *)
(* One behaviour follows one transfer transaction through every contract   *)
(* it names.  Output, input and contract indexes are 0-based as in the     *)
(* code; At(s, i) reads element i of a sequence.                           *)
(***************************************************************************)
EXTENDS Integers, Sequences, FiniteSets, TLC

\* ------------------------------------------------------------------------
\* Program constants
\* ------------------------------------------------------------------------
NoContract == 65535

\* 0xffffffff in the source, the index of no output; the integers of the model
\* are 32-bit signed, so the model writes it -1.
NoBoomerang == -1

\* ------------------------------------------------------------------------
\* Bounds of the model
\* ------------------------------------------------------------------------
\* config.DustLimit: the least value of an output.
DustLimit == 1

\* Largest funding value given to the first contract's output.
MaxFunding == 3

\* Largest quantity a bitcoin sender entry carries.
MaxBitcoinQty == 2

\* Number of entries of the asset lists firstContractOutputIndex is tried on.
MaxAssets == 3

\* Number of outputs of the transactions firstContractOutputIndex is tried on.
MaxOutputs == 2

Contracts == {"c1", "c2", "c3"}

Users == {"u1", "u2", "u3"}

\* ct.AdministrationAddress (ct.IssuerPKH in message.go).
Admin == "admin"

\* The data-only output of a settlement transaction: it pays no address.
OpReturn == "opreturn"

\* Rejection codes (actions.Rejections... / protocol.Reject...).
MsgMalformed == "msg-malformed"

ContractMoved == "contract-moved"

HoldingsFrozen == "holdings-frozen"

HoldingsLocked == "holdings-locked"

InsufficientQuantity == "insufficient-quantity"

Timeout == "timeout"

\* ------------------------------------------------------------------------
\* Helpers
\* ------------------------------------------------------------------------
At(s, i) == s[i + 1]

Max(a, b) == IF a >= b THEN a ELSE b

RECURSIVE FindAddr(_, _, _)
\* Index (0-based) of the first element of s paying addr, from position k; -1 if none.
FindAddr(s, addr, k) ==
    IF k > Len(s) THEN -1
    ELSE IF s[k].addr = addr THEN k - 1
    ELSE FindAddr(s, addr, k + 1)

\* asset.AssetType == "BSV" && len(asset.AssetCode) == 0
IsBitcoin(a) == a.btcType /\ a.code = 0

\* ------------------------------------------------------------------------
\* firstContractOutputIndex
\* ------------------------------------------------------------------------
RECURSIVE firstContractFrom(_, _, _)
firstContractFrom(assets, nOutputs, k) ==
    IF k > Len(assets) THEN NoContract
    ELSE IF ~assets[k].btcType /\ assets[k].code # 0 /\ assets[k].idx < nOutputs
         THEN assets[k].idx
         ELSE firstContractFrom(assets, nOutputs, k + 1)

\* Faulty variant: a list that names no first contract falls back to output 0.
firstContractOrZero(assets, nOutputs) ==
    IF firstContractFrom(assets, nOutputs, 1) = NoContract THEN 0
    ELSE firstContractFrom(assets, nOutputs, 1)

firstContractOutputIndex(assets, nOutputs) == firstContractFrom(assets, nOutputs, 1)

\* transferIsSingleContract
transferIsSingleContract(t, c) ==
    \A k \in 1..Len(t.assets) :
        \/ t.assets[k].btcType
        \/ /\ t.assets[k].idx < Len(t.outputs)
           /\ At(t.outputs, t.assets[k].idx).addr = c

\* ------------------------------------------------------------------------
\* findBoomerangIndex
\* ------------------------------------------------------------------------
\* Contract indexes marked used by the loop over transfer.Assets.
OutputUsed(t) ==
    {t.assets[k].idx : k \in {j \in 1..Len(t.assets) :
        ~(t.assets[j].idx = NoContract \/ IsBitcoin(t.assets[j]))}}

\* Faulty variant: the first output paying the contract, used by an asset or not.
findBoomerangIgnoringUse(t, c) ==
    LET free == {i \in 0..(Len(t.outputs) - 1) : At(t.outputs, i).addr = c}
    IN IF free = {} THEN NoBoomerang
       ELSE CHOOSE i \in free : \A j \in free : i <= j

findBoomerangIndex(t, c) ==
    IF \E i \in OutputUsed(t) : i >= Len(t.outputs) THEN NoBoomerang
    ELSE LET free == {i \in 0..(Len(t.outputs) - 1) :
                          i \notin OutputUsed(t) /\ At(t.outputs, i).addr = c}
         IN IF free = {} THEN NoBoomerang
            ELSE CHOOSE i \in free : \A j \in free : i <= j

\* ------------------------------------------------------------------------
\* buildSettlementTx
\* ------------------------------------------------------------------------
RECURSIVE settleInputsFrom(_, _, _)
\* The inputs of the settlement tx: one per contract output index named by a
\* non-bitcoin asset entry, in list order.  acc = [err, ins].
settleInputsFrom(t, k, acc) ==
    IF acc.err \/ k > Len(t.assets) THEN acc
    ELSE LET a == t.assets[k] IN
         IF a.idx = NoContract \/ IsBitcoin(a) THEN settleInputsFrom(t, k + 1, acc)
         ELSE IF a.idx >= Len(t.outputs) THEN [acc EXCEPT !.err = TRUE]
         ELSE IF \E i \in 1..Len(acc.ins) : acc.ins[i] = a.idx
              THEN settleInputsFrom(t, k + 1, acc)
              ELSE settleInputsFrom(t, k + 1, [acc EXCEPT !.ins = Append(@, a.idx)])

RECURSIVE buildSenders(_, _, _, _)
\* st = [err, outs, bal]: one dust output per sender address not yet paid.
buildSenders(t, a, j, st) ==
    IF st.err \/ j > Len(a.senders) THEN st
    ELSE LET s == a.senders[j] IN
         IF s.index >= Len(t.inputs) THEN [st EXCEPT !.err = TRUE]
         ELSE LET addr == At(t.inputs, s.index).addr IN
              buildSenders(t, a, j + 1,
                  IF FindAddr(st.outs, addr, 1) >= 0 THEN st
                  ELSE [st EXCEPT !.outs = Append(@, [addr |-> addr, value |-> DustLimit])])

RECURSIVE buildReceivers(_, _, _)
\* Receivers: a bitcoin receiver debits the contract's bitcoin balance and is
\* paid its quantity; any other receiver gets dust.
buildReceivers(a, j, st) ==
    IF st.err \/ j > Len(a.receivers) THEN st
    ELSE LET r == a.receivers[j]
             btc == IsBitcoin(a)
         IN IF btc /\ r.qty > st.bal THEN [st EXCEPT !.err = TRUE]
            ELSE LET bal == IF btc THEN st.bal - r.qty ELSE st.bal
                     at == FindAddr(st.outs, r.addr, 1)
                     outs ==
                        IF at >= 0
                        THEN IF btc
                             THEN [st.outs EXCEPT ![at + 1].value = @ + r.qty]
                             ELSE st.outs
                        ELSE Append(st.outs,
                                [addr |-> r.addr,
                                 value |-> IF btc THEN r.qty ELSE DustLimit])
                 IN buildReceivers(a, j + 1, [st EXCEPT !.bal = bal, !.outs = outs])

RECURSIVE buildOutputsFrom(_, _, _)
buildOutputsFrom(t, k, st) ==
    IF st.err \/ k > Len(t.assets) THEN st
    ELSE buildOutputsFrom(t, k + 1,
            buildReceivers(t.assets[k], 1, buildSenders(t, t.assets[k], 1, st)))

\* [err, ins, outs]: the skeletal settlement tx (contract fees are zero).
buildSettlementTx(t, contractBalance) ==
    LET i == settleInputsFrom(t, 1, [err |-> FALSE, ins |-> << >>])
        o == buildOutputsFrom(t, 1, [err |-> FALSE, outs |-> << >>, bal |-> contractBalance])
    IN [err |-> i.err \/ o.err, ins |-> i.ins, outs |-> o.outs]

\* ------------------------------------------------------------------------
\* addBitcoinSettlements
\* ------------------------------------------------------------------------
RECURSIVE bitcoinSenders(_, _, _, _)
\* st = [err, outs, send]
bitcoinSenders(t, a, j, st) ==
    IF st.err \/ j > Len(a.senders) THEN st
    ELSE LET s == a.senders[j] IN
         IF s.index >= Len(t.inputs) THEN [st EXCEPT !.err = TRUE]
         ELSE IF s.qty >= At(t.inputs, s.index).value THEN [st EXCEPT !.err = TRUE]
         ELSE bitcoinSenders(t, a, j + 1, [st EXCEPT !.send = @ + s.qty])

RECURSIVE bitcoinReceivers(_, _, _)
bitcoinReceivers(a, j, st) ==
    IF st.err \/ j > Len(a.receivers) THEN st
    ELSE LET r == a.receivers[j]
             at == FindAddr(st.outs, r.addr, 1)
         IN IF at < 0 THEN [st EXCEPT !.err = TRUE]
            ELSE LET outs == [st.outs EXCEPT ![at + 1].value = @ + r.qty] IN
                 IF r.qty >= st.send THEN [st EXCEPT !.err = TRUE, !.outs = outs]
                 ELSE bitcoinReceivers(a, j + 1,
                        [st EXCEPT !.outs = outs, !.send = @ - r.qty])

RECURSIVE bitcoinFrom(_, _, _)
bitcoinFrom(t, k, st) ==
    IF st.err \/ k > Len(t.assets) THEN st
    ELSE IF ~IsBitcoin(t.assets[k]) THEN bitcoinFrom(t, k + 1, st)
    ELSE LET after == bitcoinReceivers(t.assets[k], 1,
                         bitcoinSenders(t, t.assets[k], 1, [st EXCEPT !.send = 0]))
         IN IF after.err THEN after
            ELSE IF after.send # 0 THEN [after EXCEPT !.err = TRUE]
            ELSE bitcoinFrom(t, k + 1, after)

\* [err, outs]: the settlement outputs after the bitcoin receivers were paid
\* (the transfer carries no exchange fee).
addBitcoinSettlements(t, outs) ==
    LET r == bitcoinFrom(t, 1, [err |-> FALSE, outs |-> outs, send |-> 0])
    IN [err |-> r.err, outs |-> r.outs]

\* ------------------------------------------------------------------------
\* Holdings ledger
\* ------------------------------------------------------------------------
\* The id of the transfer tx, and those of the txs that may be pending on one
\* holding at once.
TransferTxId == "t1"

TxIds == {"t1", "t2"}

\* A holding: finalized balance, pending balance and its statuses.  A status
\* is [tx, code, amount, settle] with code "debit", "deposit" (pending moves
\* of tx), "frozen" or "locked" (set by an enforcement order).
NewHolding(balance) == [fin |-> balance, pend |-> balance, st |-> {}]

\* Sum of the amounts of a set of statuses.
RECURSIVE SumAmounts(_)
SumAmounts(S) ==
    IF S = {} THEN 0
    ELSE LET x == CHOOSE y \in S : TRUE IN x.amount + SumAmounts(S \ {x})

\* Sum of the amounts of the statuses of h with the given code.
StatusSum(h, code) == SumAmounts({x \in h.st : x.code = code})

\* holdings.SafeBalance: what is left to spend after the active debits.
SafeBalance(h) == h.fin - StatusSum(h, "debit") - StatusSum(h, "frozen")

HasStatus(h, code) == \E x \in h.st : x.code = code

HasTx(h, tx) == \E x \in h.st : x.tx = tx /\ x.code \in {"debit", "deposit"}

\* Faulty variant: a tx that has a status on the holding is debited again.
AddDebitAgain(h, tx, qty, single) ==
    IF HasStatus(h, "frozen") THEN [err |-> HoldingsFrozen, h |-> h]
    ELSE IF HasStatus(h, "locked") THEN [err |-> HoldingsLocked, h |-> h]
    ELSE IF qty > SafeBalance(h) THEN [err |-> InsufficientQuantity, h |-> h]
    ELSE IF single
         THEN [err |-> "", h |-> [h EXCEPT !.fin = @ - qty, !.pend = @ - qty]]
    ELSE [err |-> "",
          h |-> [h EXCEPT !.pend = @ - qty,
                          !.st = @ \cup {[tx |-> tx, code |-> "debit", amount |-> qty,
                                          settle |-> h.pend - qty]}]]

\* holdings.AddDebit: [err, h].  A frozen or locked holding blocks the debit;
\* a single-contract debit is finalized at once, any other is recorded as a
\* pending status that carries the balance to settle.
AddDebit(h, tx, qty, single) ==
    IF HasTx(h, tx) THEN [err |-> "duplicate", h |-> h]
    ELSE IF HasStatus(h, "frozen") THEN [err |-> HoldingsFrozen, h |-> h]
    ELSE IF HasStatus(h, "locked") THEN [err |-> HoldingsLocked, h |-> h]
    ELSE IF qty > SafeBalance(h) THEN [err |-> InsufficientQuantity, h |-> h]
    ELSE IF single
         THEN [err |-> "", h |-> [h EXCEPT !.fin = @ - qty, !.pend = @ - qty]]
    ELSE [err |-> "",
          h |-> [h EXCEPT !.pend = @ - qty,
                          !.st = @ \cup {[tx |-> tx, code |-> "debit", amount |-> qty,
                                          settle |-> h.pend - qty]}]]

\* holdings.AddDeposit
AddDeposit(h, tx, qty, single) ==
    IF HasTx(h, tx) THEN [err |-> "duplicate", h |-> h]
    ELSE IF HasStatus(h, "locked") THEN [err |-> HoldingsLocked, h |-> h]
    ELSE IF single
         THEN [err |-> "", h |-> [h EXCEPT !.fin = @ + qty, !.pend = @ + qty]]
    ELSE [err |-> "",
          h |-> [h EXCEPT !.pend = @ + qty,
                          !.st = @ \cup {[tx |-> tx, code |-> "deposit", amount |-> qty,
                                          settle |-> h.pend + qty]}]]

\* Faulty variant: the amount of the status is applied to the finalized
\* balance and the status is left in place.
FinalizeTxKeepsStatus(h, tx, qty) ==
    IF ~HasTx(h, tx) THEN h
    ELSE LET x == CHOOSE y \in h.st : y.tx = tx /\ y.code \in {"debit", "deposit"}
         IN [h EXCEPT !.fin = IF x.code = "debit" THEN @ - x.amount ELSE @ + x.amount]

\* holdings.FinalizeTx: the settled quantity becomes the finalized balance and
\* the pending status of tx is removed; with no such status nothing changes.
FinalizeTx(h, tx, qty) ==
    IF ~HasTx(h, tx) THEN h
    ELSE [h EXCEPT !.fin = qty,
                   !.st = {x \in @ : ~(x.tx = tx /\ x.code \in {"debit", "deposit"})}]

\* holdings.RevertStatus: the pending move of tx is taken back.
RevertStatus(h, tx) ==
    IF ~HasTx(h, tx) THEN h
    ELSE LET x == CHOOSE y \in h.st : y.tx = tx /\ y.code \in {"debit", "deposit"}
         IN [h EXCEPT !.pend = IF x.code = "debit" THEN @ + x.amount ELSE @ - x.amount,
                      !.st = @ \ {x}]

\* ------------------------------------------------------------------------
\* addSettlementData
\* ------------------------------------------------------------------------
\* st = [res, code, hds, send, upd, hold]: res is "ok", "reject" (an error
\* carrying a rejection code) or "error" (any other error); hds the settlement
\* outputs that already have a holding; upd the holdings changed, as
\* <<code, party>>; hold the holdings as fetched and changed so far.
\* Faulty variant: every failure of the debit is answered as malformed.
senderDebitedMalformed(st, at, key, qty, debit) ==
    IF debit.err # ""
    THEN [st EXCEPT !.res = "reject", !.code = MsgMalformed]
    ELSE [st EXCEPT !.hds = @ \cup {at},
                    !.upd = @ \cup {key},
                    !.hold = [@ EXCEPT ![key] = debit.h],
                    !.send = @ + qty]

\* The sender's holding after holdings.AddDebit returned debit.
senderDebited(st, at, key, qty, debit) ==
    IF debit.err \in {InsufficientQuantity, HoldingsFrozen, HoldingsLocked}
    THEN [st EXCEPT !.res = "reject", !.code = debit.err]
    ELSE IF debit.err # ""
    THEN [st EXCEPT !.res = "reject", !.code = MsgMalformed]
    ELSE [st EXCEPT !.hds = @ \cup {at},
                    !.upd = @ \cup {key},
                    !.hold = [@ EXCEPT ![key] = debit.h],
                    !.send = @ + qty]

RECURSIVE dataSenders(_, _, _, _, _, _)
dataSenders(t, a, outs, single, j, st) ==
    IF st.res # "ok" \/ j > Len(a.senders) THEN st
    ELSE LET s == a.senders[j] IN
         IF s.index >= Len(t.inputs) THEN [st EXCEPT !.res = "error"]
         ELSE LET addr == At(t.inputs, s.index).addr
                  at == FindAddr(outs, addr, 1)
                  key == <<a.code, addr>>
              IN IF at < 0 THEN [st EXCEPT !.res = "error"]
                 ELSE IF at \in st.hds
                      THEN [st EXCEPT !.res = "reject", !.code = MsgMalformed]
                 ELSE dataSenders(t, a, outs, single, j + 1,
                        senderDebited(st, at, key, s.qty,
                            AddDebit(st.hold[key], TransferTxId, s.qty, single)))

\* The receiver's holding after holdings.AddDeposit returned deposit.
receiverDeposited(st, at, key, qty, deposit) ==
    IF deposit.err = HoldingsLocked
    THEN [st EXCEPT !.res = "reject", !.code = HoldingsLocked]
    ELSE IF deposit.err # ""
    THEN [st EXCEPT !.res = "reject", !.code = MsgMalformed]
    ELSE IF qty > st.send THEN [st EXCEPT !.res = "error"]
    ELSE [st EXCEPT !.hds = @ \cup {at},
                    !.upd = @ \cup {key},
                    !.hold = [@ EXCEPT ![key] = deposit.h],
                    !.send = @ - qty]

RECURSIVE dataReceivers(_, _, _, _, _)
dataReceivers(a, outs, single, j, st) ==
    IF st.res # "ok" \/ j > Len(a.receivers) THEN st
    ELSE LET r == a.receivers[j]
             at == FindAddr(outs, r.addr, 1)
             key == <<a.code, r.addr>>
         IN IF at < 0 THEN [st EXCEPT !.res = "error"]
            ELSE IF at \in st.hds
                 THEN [st EXCEPT !.res = "reject", !.code = MsgMalformed]
            ELSE dataReceivers(a, outs, single, j + 1,
                    receiverDeposited(st, at, key, r.qty,
                        AddDeposit(st.hold[key], TransferTxId, r.qty, single)))

\* Faulty variant: an asset that does not send all it receives is settled.
assetSettledUnbalanced(acc, a, st) ==
    IF st.res # "ok" THEN [acc EXCEPT !.res = st.res, !.code = st.code]
    ELSE [acc EXCEPT
            !.settled = IF \E i \in 1..Len(@) : @[i] = a.code
                        THEN @ ELSE Append(@, a.code),
            !.upd = @ \cup st.upd,
            !.hold = st.hold,
            !.added = TRUE]

\* The end of the settlement of asset a: st is what its senders and receivers
\* left; everything sent must have been received.
assetSettled(acc, a, st) ==
    IF st.res # "ok" THEN [acc EXCEPT !.res = st.res, !.code = st.code]
    ELSE IF st.send # 0 THEN [acc EXCEPT !.res = "error"]
    ELSE [acc EXCEPT
            !.settled = IF \E i \in 1..Len(@) : @[i] = a.code
                        THEN @ ELSE Append(@, a.code),
            !.upd = @ \cup st.upd,
            !.hold = st.hold,
            !.added = TRUE]

RECURSIVE dataFrom(_, _, _, _, _, _)
\* acc = [res, code, settled, upd, hold, added]; hold are the holdings as
\* fetched from the cache and changed by the assets settled so far.
dataFrom(c, t, tx, single, k, acc) ==
    IF acc.res # "ok" \/ k > Len(t.assets) THEN acc
    ELSE LET a == t.assets[k] IN
         IF IsBitcoin(a) THEN dataFrom(c, t, tx, single, k + 1, acc)
         ELSE IF Len(t.outputs) <= a.idx THEN [acc EXCEPT !.res = "error"]
         ELSE IF At(t.outputs, a.idx).addr # c
              THEN dataFrom(c, t, tx, single, k + 1, acc)
         ELSE IF ~\E i \in 1..Len(tx.ins) : At(t.outputs, tx.ins[i]).addr = c
              THEN [acc EXCEPT !.res = "error"]
         ELSE dataFrom(c, t, tx, single, k + 1,
                assetSettled(acc, a,
                    dataReceivers(a, tx.outs, single, 1,
                        dataSenders(t, a, tx.outs, single, 1,
                            [res |-> "ok", code |-> "", hds |-> {}, send |-> 0,
                             upd |-> {}, hold |-> acc.hold]))))

\* What addSettlementData returns after its loop over the assets: an error
\* when no asset of the contract was settled; qty are the settlement
\* quantities, the pending balance of every holding changed.
settlementData(r) ==
    [res |-> IF r.res = "ok" /\ ~r.added THEN "error" ELSE r.res,
     code |-> r.code, settled |-> r.settled, upd |-> r.upd, hold |-> r.hold,
     qty |-> [x \in r.upd |-> r.hold[x].pend]]

\* [res, code, settled, upd, hold, qty]: contract c appends the settlement of
\* its assets to the Settlement payload `settled` (the asset codes settled so
\* far) and debits and deposits its copies of the holdings.
addSettlementData(c, t, tx, settled, hold, single) ==
    settlementData(dataFrom(c, t, tx, single, 1,
                       [res |-> "ok", code |-> "", settled |-> settled, upd |-> {},
                        hold |-> hold, added |-> FALSE]))

\* ------------------------------------------------------------------------
\* sendToNextSettlementContract: the next contract
\* ------------------------------------------------------------------------
RECURSIVE nextContractFrom(_, _, _, _, _)
\* The contract index of the next contract, NoContract when there is none,
\* -1 when a contract index is out of range.
nextContractFrom(t, c, k, currentFound, completed) ==
    IF k > Len(t.assets) THEN NoContract
    ELSE LET a == t.assets[k] IN
         IF a.idx = NoContract THEN nextContractFrom(t, c, k + 1, currentFound, completed)
         ELSE IF a.idx >= Len(t.outputs) THEN -1
         ELSE LET addr == At(t.outputs, a.idx).addr IN
              IF ~currentFound
              THEN nextContractFrom(t, c, k + 1, addr = c, completed \cup {addr})
              ELSE IF addr \notin completed THEN a.idx
              ELSE nextContractFrom(t, c, k + 1, currentFound, completed)

nextContractIndex(t, c) == nextContractFrom(t, c, 1, FALSE, {})

\* settlementIsComplete: every non-bitcoin asset of the transfer has its
\* settlement in the payload.
settlementIsComplete(t, settled) ==
    \A k \in 1..Len(t.assets) :
        IsBitcoin(t.assets[k])
        \/ \E i \in 1..Len(settled) : settled[i] = t.assets[k].code

\* ------------------------------------------------------------------------
\* Signing
\* ------------------------------------------------------------------------
\* settleTx.SignInput(i, key) for every input: the inputs key c signs.
OwnInputs(t, ins, c) == {i \in 1..Len(ins) : At(t.outputs, ins[i]).addr = c}

\* settleTx.AllInputsAreSigned
AllInputsAreSigned(ins, signed) == \A i \in 1..Len(ins) : i \in signed

\* Faulty variant: broadcast as soon as this contract has signed.
broadcastReadyOwnOnly(ins, signed) == signed # {}

\* The test that guards node.Respond(settleTx) in both message handlers.
broadcastReady(ins, signed) == AllInputsAreSigned(ins, signed)

\* sendToPreviousSettlementContract: the loop keeps the last unsigned input.
previousContract(t, ins, signed) ==
    LET open == {i \in 1..Len(ins) : i \notin signed}
    IN At(t.outputs, ins[CHOOSE i \in open : \A j \in open : j <= i]).addr

\* ------------------------------------------------------------------------
\* verifySettlement
\* ------------------------------------------------------------------------
RECURSIVE verifyFrom(_, _, _, _, _, _)
\* "ok", "reject" (holdings frozen) or "error".  outs are the outputs of the
\* settlement tx, the data output included.
verifyFrom(c, t, outs, settled, frz, k) ==
    IF k > Len(t.assets) THEN "ok"
    ELSE LET a == t.assets[k]
             mine == /\ ~IsBitcoin(a)
                     /\ a.idx < Len(outs)
                     /\ At(outs, a.idx).addr \in {OpReturn, c}
         IN IF ~IsBitcoin(a) /\ Len(outs) <= a.idx THEN "error"
            ELSE IF ~IsBitcoin(a) /\ ~mine THEN verifyFrom(c, t, outs, settled, frz, k + 1)
            ELSE IF mine /\ (a.idx >= Len(t.outputs) \/ At(t.outputs, a.idx).addr # c)
                 THEN "error"
            ELSE IF ~\E i \in 1..Len(settled) : settled[i] = a.code THEN "error"
            ELSE IF mine /\ frz /\ a.senders # << >> THEN "reject"
            ELSE verifyFrom(c, t, outs, settled, frz, k + 1)

verifySettlement(c, t, outs, settled, frz) == verifyFrom(c, t, outs, settled, frz, 1)

\* ------------------------------------------------------------------------
\* Rejection responses
\* ------------------------------------------------------------------------
\* ResponseWriter.AddRejectValue: the value is added to the output that
\* already pays addr, else a new output is appended.
AddRejectValue(outs, addr, value) ==
    LET at == FindAddr(outs, addr, 1)
    IN IF at >= 0 THEN [outs EXCEPT ![at + 1].value = @ + value]
       ELSE Append(outs, [addr |-> addr, value |-> value, change |-> FALSE])

\* ResponseWriter.ClearRejectOutputValues: every output is left with no value
\* and the change goes to changeAddress.
ClearRejectOutputValues(outs, changeAddress) ==
    Append([i \in 1..Len(outs) |-> [outs[i] EXCEPT !.value = 0, !.change = FALSE]],
           [addr |-> changeAddress, value |-> 0, change |-> TRUE])

RECURSIVE refundSenders(_, _, _, _)
\* st = [outs, refund]
refundSenders(t, a, j, st) ==
    IF j > Len(a.senders) THEN st
    ELSE LET s == a.senders[j] IN
         IF s.index >= Len(t.inputs) THEN refundSenders(t, a, j + 1, st)
         ELSE LET addr == At(t.inputs, s.index).addr IN
              IF IsBitcoin(a)
              THEN refundSenders(t, a, j + 1,
                      [outs |-> AddRejectValue(st.outs, addr, s.qty),
                       refund |-> st.refund + s.qty])
              ELSE refundSenders(t, a, j + 1,
                      [st EXCEPT !.outs = AddRejectValue(@, addr, 0)])

RECURSIVE refundFrom(_, _, _)
refundFrom(t, k, st) ==
    IF k > Len(t.assets) THEN st
    ELSE refundFrom(t, k + 1, refundSenders(t, t.assets[k], 1, st))

\* Faulty variant: the shortfall test is dropped.
refundOutputsNoShortfall(t, balance) ==
    refundFrom(t, 1, [outs |-> << >>, refund |-> 0]).outs

\* The reject outputs after the loop over transfer.Assets and the shortfall
\* test: refundBalance > balance sends everything to the administration.
refundOutputs(t, balance) ==
    LET r == refundFrom(t, 1, [outs |-> << >>, refund |-> 0])
    IN IF r.refund > balance THEN ClearRejectOutputValues(r.outs, Admin) ELSE r.outs

\* Value of the outputs of tx t that pay contract c, the output at `spent`
\* left out (transferTx.UTXOs().ForAddress with the boomerang removed).
utxoBalance(t, c, spent) ==
    LET mine == {i \in 0..(Len(t.outputs) - 1) : At(t.outputs, i).addr = c /\ i # spent}
        val[S \in SUBSET mine] ==
            IF S = {} THEN 0
            ELSE LET i == CHOOSE x \in S : TRUE
                 IN At(t.outputs, i).value + val[S \ {i}]
    IN val[mine]

\* node.RespondRejectText: the outputs of the rejection tx.  An output below
\* the dust limit is raised to it; the change goes to the output flagged as
\* change, else to the first reject output.
rejectTxOutputs(rejectOutputs) ==
    [i \in 1..Len(rejectOutputs) |->
        [rejectOutputs[i] EXCEPT !.value = Max(@, DustLimit)]]

rejectChangeAddress(rejectOutputs) ==
    IF \E i \in 1..Len(rejectOutputs) : rejectOutputs[i].change
    THEN rejectOutputs[CHOOSE i \in 1..Len(rejectOutputs) :
                          /\ rejectOutputs[i].change
                          /\ \A j \in 1..(i - 1) : ~rejectOutputs[j].change].addr
    ELSE rejectOutputs[1].addr

\* ------------------------------------------------------------------------
\* Transactions emitted by the contracts
\* ------------------------------------------------------------------------
\* kind: "SettlementRequest", "SignatureRequest", "Settlement", "Rejection".
\* to: the contract a message is addressed to ("" for a broadcast).
\* spends: the output that funds a relay message, <<tx, index>>.
\* funding: the value of the inputs of a rejection (w.SetRejectUTXOs).
\* qty: the settlement quantities of the payload, by <<code, party>>.
Tx(kind, by, to) ==
    [kind |-> kind, by |-> by, to |-> to, code |-> "", outs |-> << >>,
     change |-> "", funding |-> 0, spends |-> << >>, settled |-> << >>,
     ins |-> << >>, signed |-> {}, qty |-> << >>]

\* With no reject output everything goes back to the first input of the
\* rejected tx (the requestor).
RejectionTx(by, to, code, rejectOutputs, requestor, balance) ==
    LET outs == IF rejectOutputs = << >>
                THEN <<[addr |-> requestor, value |-> 0, change |-> TRUE]>>
                ELSE rejectOutputs
    IN [Tx("Rejection", by, to) EXCEPT
            !.code = code,
            !.funding = balance,
            !.outs = rejectTxOutputs(outs),
            !.change = rejectChangeAddress(outs)]

\* Value of the output of a relay message that pays its receiver.
MessageValue == DustLimit

\* ------------------------------------------------------------------------
\* The transfers tried
\* ------------------------------------------------------------------------
ContractSeq == <<"c1", "c2", "c3">>

\* Value of every input of the transfer tx.
InputValue == MaxBitcoinQty + 1

\* n contracts have an output; assign[k] is the contract of token asset k.
Shapes ==
    {[n |-> 1, assign |-> << >>], [n |-> 1, assign |-> <<1>>],
     [n |-> 1, assign |-> <<1, 1>>], [n |-> 2, assign |-> <<1, 2>>],
     [n |-> 2, assign |-> <<2, 1>>], [n |-> 2, assign |-> <<1, 2, 1>>],
     [n |-> 3, assign |-> <<1, 2, 3>>]}

\* The bitcoin entry of a transfer: none, or one with two senders and, when
\* pay holds, one receiver of everything sent.
BitcoinEntries ==
    {<< >>}
    \cup {<<[btcType |-> TRUE, code |-> 0, idx |-> NoContract,
             senders |-> << >>, receivers |-> << >>]>>}
    \cup {<<[btcType |-> TRUE, code |-> 0, idx |-> NoContract,
             senders |-> <<[index |-> 0, qty |-> q1], [index |-> 1, qty |-> q2]>>,
             receivers |-> IF pay THEN <<[addr |-> "u3", qty |-> q1 + q2]>> ELSE << >>]>>
          : q1 \in 0..MaxBitcoinQty, q2 \in 0..MaxBitcoinQty, pay \in BOOLEAN}

\* boom: where the boomerang output stands ("none", "first", "last").
\* wide: the even token assets pay a third party.
MkTransfer(shape, boom, fund, wide, btc) ==
    LET firstC == IF shape.assign = << >> THEN 1 ELSE shape.assign[1]
        cOuts == [i \in 1..shape.n |-> [addr |-> ContractSeq[i], value |-> fund]]
        bOut == <<[addr |-> ContractSeq[firstC], value |-> DustLimit]>>
        off == IF boom = "first" THEN 1 ELSE 0
    IN [outputs |-> IF boom = "first" THEN bOut \o cOuts
                    ELSE IF boom = "last" THEN cOuts \o bOut ELSE cOuts,
        inputs |-> <<[addr |-> "u1", value |-> InputValue],
                     [addr |-> "u2", value |-> InputValue]>>,
        assets |-> btc \o
            [k \in 1..Len(shape.assign) |->
                [btcType |-> FALSE, code |-> k, idx |-> shape.assign[k] - 1 + off,
                 senders |-> <<[index |-> 0, qty |-> 1]>>,
                 receivers |-> <<[addr |-> IF wide /\ k % 2 = 0 THEN "u3" ELSE "u2",
                                  qty |-> 1]>>]]]

Transfers ==
    {MkTransfer(shape, boom, fund, wide, btc) :
        shape \in Shapes, boom \in {"none", "first", "last"},
        fund \in 1..MaxFunding, wide \in BOOLEAN, btc \in BitcoinEntries}

\* Faulty variant: the receivers' statuses are not reverted.
ownHoldingsSendersOnly(t, c) ==
    UNION {{<<t.assets[k].code, At(t.inputs, t.assets[k].senders[j].index).addr>> :
                j \in 1..Len(t.assets[k].senders)}
           : k \in {x \in 1..Len(t.assets) :
                      /\ ~IsBitcoin(t.assets[x])
                      /\ t.assets[x].idx < Len(t.outputs)
                      /\ At(t.outputs, t.assets[x].idx).addr = c}}

\* The holdings of contract c that transfer t touches (the updates of
\* addSettlementData, the holdings respondTransferReject reverts).
ownHoldings(t, c) ==
    UNION {{<<t.assets[k].code, At(t.inputs, t.assets[k].senders[j].index).addr>> :
                j \in 1..Len(t.assets[k].senders)}
           \cup {<<t.assets[k].code, t.assets[k].receivers[j].addr>> :
                j \in 1..Len(t.assets[k].receivers)}
           : k \in {x \in 1..Len(t.assets) :
                      /\ ~IsBitcoin(t.assets[x])
                      /\ t.assets[x].idx < Len(t.outputs)
                      /\ At(t.outputs, t.assets[x].idx).addr = c}}

\* The holdings any contract may fetch for transfer t: one for every party
\* of every token asset.
Fetched(t) ==
    UNION {{<<t.assets[k].code, At(t.inputs, t.assets[k].senders[j].index).addr>> :
                j \in 1..Len(t.assets[k].senders)}
           \cup {<<t.assets[k].code, t.assets[k].receivers[j].addr>> :
                j \in 1..Len(t.assets[k].receivers)}
           : k \in {x \in 1..Len(t.assets) : ~IsBitcoin(t.assets[x])}}

\* The holdings cache of every contract before the transfer: every holding
\* the transfer may touch has the given balance.
OpeningCache(t, balance) ==
    [c \in Contracts |-> [k \in Fetched(t) |-> NewHolding(balance)]]

\* Faulty variant: the holdings changed are not written to the cache.
saveHoldingsNone(held, hold, upd) == held

\* saveHoldings: the holdings changed (upd) are written to the cache.
saveHoldings(held, hold, upd) ==
    [k \in DOMAIN held |-> IF k \in upd THEN hold[k] ELSE held[k]]

\* Faulty variant: nothing is taken back.
revertHoldingsNone(held, upd) == held

\* revertHoldings and the revert of respondTransferReject: the pending move
\* of the transfer is taken back on every holding it touches.
revertHoldings(held, upd) ==
    [k \in DOMAIN held |-> IF k \in upd THEN RevertStatus(held[k], TransferTxId)
                           ELSE held[k]]

\* ------------------------------------------------------------------------
\* State
\* ------------------------------------------------------------------------
VARIABLES
    transfer,   \* the transfer tx (itx and its Transfer payload)
    moved,      \* contracts whose ct.MovedTo is set
    frozen,     \* contracts whose sender holdings are frozen
    handled,    \* contracts whose TransferRequest handler has run
    result,     \* what each contract's TransferRequest handler returned
    txStore,    \* contracts that saved the transfer tx (transactions.AddTx)
    pending,    \* contracts holding a pending-transfer record (transfer.Save)
    job,        \* the transfer-timeout job of each contract's scheduler
    statuses,   \* pending holding statuses each contract saved, <<code, party>>
    cache,      \* the holdings cache of each contract, by <<code, party>>
    opening,    \* the holdings cache before the transfer tx arrived
    finalized,  \* contracts whose SettlementResponse handler has run
    log,        \* the transactions emitted, in order
    msgs,       \* positions in log of the messages not yet handled
    first,      \* firstContractOutputIndex of the asset list, -1 until computed
    heap,       \* the HoldingStatus records allocated, by reference
    slot,       \* cacheUpdate.h of one cache slot, its statuses by reference
    modified,   \* cacheUpdate.modified of the slot
    working,    \* the holding each running handler works on
    pc,         \* where each handler and the writer worker stand
    storage,    \* the bytes in storage under the slot's path
    channel,    \* the CacheItems in the CacheChannel
    ready,      \* State.IsReady: the node is in sync
    memPool,    \* the MemPool's record of each tx hash
    tracker,    \* the txids in each peer's TxTracker
    inv,        \* the inv message each peer's InvHandler is working on
    getData,    \* the get-data messages emitted, in order
    left        \* inv announcements still to come

transferVars == <<transfer, moved, frozen, handled, result, txStore, pending, job,
                  statuses, cache, opening, finalized, log, msgs, first>>

nodeVars == <<heap, slot, modified, working, pc, storage, channel>>

invVars == <<ready, memPool, tracker, inv, getData, left>>

vars == <<transferVars, nodeVars, invVars>>

\* The inv handling while it is not followed.
InvIdle ==
    /\ ready = FALSE
    /\ memPool = << >>
    /\ tracker = << >>
    /\ inv = << >>
    /\ getData = << >>
    /\ left = 0

\* The cache slot and its writer while only transfers are followed.
NodeIdle ==
    /\ InvIdle
    /\ heap = << >>
    /\ slot = << >>
    /\ modified = FALSE
    /\ working = << >>
    /\ pc = << >>
    /\ storage = << >>
    /\ channel = << >>

\* Number of environment changes (address change, freeze) in one behaviour.
MaxEnvEvents == 1

Init ==
    /\ NodeIdle
    /\ transfer \in Transfers
    /\ moved = {}
    /\ frozen = {}
    /\ handled = {}
    /\ result = [c \in Contracts |-> "none"]
    /\ txStore = {}
    /\ pending = {}
    /\ job = [c \in Contracts |-> "none"]
    /\ statuses = [c \in Contracts |-> {}]
    /\ cache = OpeningCache(transfer, 1)
    /\ opening = cache
    /\ finalized = {}
    /\ log = << >>
    /\ msgs = {}
    /\ first = -1

\* ------------------------------------------------------------------------
\* Handlers
\* ------------------------------------------------------------------------
\* The output that closes a settlement tx: the Settlement payload.
DataOutput == [addr |-> OpReturn, value |-> 0]

\* respondTransferReject: the rejection of the first contract.  A started
\* transfer has spent its boomerang and has pending statuses to revert.
respondTransferReject(c, code, started) ==
    LET t == transfer
        f == firstContractOutputIndex(t.assets, Len(t.outputs))
        balance == utxoBalance(t, c, IF started THEN findBoomerangIndex(t, c) ELSE -1)
        outOfRange == \E k \in 1..Len(t.assets) :
                         ~IsBitcoin(t.assets[k]) /\ Len(t.outputs) <= t.assets[k].idx
    IN IF f = NoContract \/ At(t.outputs, f).addr # c \/ (started /\ outOfRange)
       THEN UNCHANGED <<log, statuses, cache>>
       ELSE /\ log' = Append(log, RejectionTx(c, "", code, refundOutputs(t, balance),
                                              t.inputs[1].addr, balance))
            /\ statuses' = IF started
                           THEN [statuses EXCEPT ![c] = @ \ ownHoldings(t, c)]
                           ELSE statuses
            /\ cache' = IF started
                        THEN [cache EXCEPT ![c] = revertHoldings(@, ownHoldings(t, c))]
                        ELSE cache

\* Faulty variant: the request is refused without an answer.
RejectRequestSilent(c, code) ==
    /\ result' = [result EXCEPT ![c] = "rejected"]
    /\ UNCHANGED <<txStore, pending, job, msgs, log, statuses, cache>>

RejectRequest(c, code) ==
    /\ respondTransferReject(c, code, FALSE)
    /\ result' = [result EXCEPT ![c] = "rejected"]
    /\ UNCHANGED <<txStore, pending, job, msgs>>

\* Transfer.TransferRequest
TransferRequest(c) ==
    /\ c \notin handled
    /\ \E i \in 1..Len(transfer.outputs) : transfer.outputs[i].addr = c
    /\ handled' = handled \cup {c}
    /\ first' = firstContractOutputIndex(transfer.assets, Len(transfer.outputs))
    /\ UNCHANGED <<nodeVars, invVars, transfer, opening, moved, frozen, finalized>>
    /\ LET t == transfer
           f == firstContractOutputIndex(t.assets, Len(t.outputs))
           tx == buildSettlementTx(t, At(t.outputs, f).value)
           btc == addBitcoinSettlements(t, tx.outs)
           outs == Append(btc.outs, DataOutput)
           single == transferIsSingleContract(t, c)
           data == addSettlementData(c, t, [ins |-> tx.ins, outs |-> outs], << >>,
                                     cache[c], single)
           boom == findBoomerangIndex(t, c)
           next == nextContractIndex(t, c)
       IN IF f = NoContract
          THEN /\ result' = [result EXCEPT ![c] = "error"]
               /\ UNCHANGED <<txStore, pending, job, statuses, cache, log, msgs>>
          ELSE IF At(t.outputs, f).addr # c
          THEN /\ txStore' = txStore \cup {c}
               /\ result' = [result EXCEPT ![c] = "waiting"]
               /\ UNCHANGED <<pending, job, statuses, cache, log, msgs>>
          ELSE IF c \in moved THEN RejectRequest(c, ContractMoved)
          ELSE IF tx.err THEN RejectRequest(c, MsgMalformed)
          ELSE IF btc.err THEN RejectRequest(c, MsgMalformed)
          ELSE IF data.res = "reject" THEN RejectRequest(c, data.code)
          ELSE IF data.res = "error"
          THEN /\ result' = [result EXCEPT ![c] = "error"]
               /\ UNCHANGED <<txStore, pending, job, statuses, cache, log, msgs>>
          ELSE IF single
          THEN /\ log' = Append(log, [Tx("Settlement", c, "") EXCEPT
                                        !.outs = outs, !.ins = tx.ins,
                                        !.signed = 1..Len(tx.ins),
                                        !.settled = data.settled,
                                        !.qty = data.qty])
               /\ cache' = [cache EXCEPT ![c] = saveHoldings(@, data.hold, data.upd)]
               /\ result' = [result EXCEPT ![c] = "settled"]
               /\ UNCHANGED <<txStore, pending, job, statuses, msgs>>
          ELSE IF boom = NoBoomerang \/ next \in {-1, NoContract}
          THEN /\ txStore' = txStore \cup {c}
               /\ result' = [result EXCEPT ![c] = "error"]
               /\ UNCHANGED <<pending, job, statuses, cache, log, msgs>>
          ELSE /\ txStore' = txStore \cup {c}
               /\ log' = Append(log, [Tx("SettlementRequest", c, At(t.outputs, next).addr)
                                        EXCEPT !.spends = <<"transfer", boom>>,
                                               !.settled = data.settled,
                                               !.qty = data.qty])
               /\ msgs' = msgs \cup {Len(log) + 1}
               /\ pending' = pending \cup {c}
               /\ job' = [job EXCEPT ![c] = "scheduled"]
               /\ statuses' = [statuses EXCEPT ![c] = @ \cup data.upd]
               /\ cache' = [cache EXCEPT ![c] = saveHoldings(@, data.hold, data.upd)]
               /\ result' = [result EXCEPT ![c] = "requested"]

\* Faulty variant: the job is not found and stays as it is.
CancelJobNotFound(j) == j

\* Scheduler.CancelJob as the handlers use it: a scheduled job is cancelled;
\* scheduler.NotFound is logged and ignored.
CancelJob(j) == IF j = "scheduled" THEN "cancelled" ELSE j

\* Transfer.TransferTimeout: the scheduler runs the job at its deadline.
TransferTimeout(c) ==
    /\ job[c] \in {"scheduled", "running"}
    /\ job' = [job EXCEPT ![c] = "fired"]
    /\ pending' = pending \ {c}
    /\ respondTransferReject(c, Timeout, TRUE)
    /\ UNCHANGED <<nodeVars, invVars, transfer, opening, moved, frozen, handled, result, txStore, finalized,
                   msgs, first>>

\* A message handler that returns an error: the message is consumed and
\* nothing else changes.
HandlerError(i) ==
    /\ msgs' = msgs \ {i}
    /\ UNCHANGED log

\* Faulty variant: the first-contract test is dropped.
messageRejectAlwaysRefunds(t, c, f, balance) == refundOutputs(t, balance)

\* The reject outputs of respondTransferMessageReject: a contract that is not
\* the first one addresses the first contract only; the first contract
\* refunds.  f is the first contract's output index.
messageRejectOutputs(t, c, f, balance) ==
    IF At(t.outputs, f).addr # c
    THEN AddRejectValue(<< >>, At(t.outputs, f).addr, 0)
    ELSE refundOutputs(t, balance)

\* Message.respondTransferMessageReject
respondTransferMessageReject(c, i, code) ==
    LET t == transfer
        f == firstContractOutputIndex(t.assets, Len(t.outputs))
        boom == findBoomerangIndex(t, c)
        isFirst == At(t.outputs, f).addr = c
        balance == IF isFirst THEN utxoBalance(t, c, boom) + MessageValue
                   ELSE MessageValue
    IN IF f = NoContract THEN HandlerError(i)
       ELSE IF isFirst /\ boom = NoBoomerang THEN HandlerError(i)
       ELSE /\ log' = Append(log,
                        RejectionTx(c, IF isFirst THEN "" ELSE At(t.outputs, f).addr,
                                    code, messageRejectOutputs(t, c, f, balance),
                                    IF isFirst THEN t.inputs[1].addr ELSE log[i].by,
                                    balance))
            /\ msgs' = IF isFirst THEN msgs \ {i}
                       ELSE (msgs \ {i}) \cup {Len(log) + 1}

\* The position of the first asset with a contract index (the loop of
\* processSettlementRequest); Len + 1 when there is none.
RECURSIVE firstContractPosition(_, _)
firstContractPosition(assets, k) ==
    IF k > Len(assets) THEN k
    ELSE IF assets[k].idx # NoContract THEN k
    ELSE firstContractPosition(assets, k + 1)

\* Message.processSettlementRequest
processSettlementRequest(i) ==
    /\ i \in msgs
    /\ log[i].kind = "SettlementRequest"
    /\ log[i].to \in handled
    /\ UNCHANGED <<nodeVars, invVars, transfer, opening, moved, frozen, handled, result, pending, job,
                   statuses, cache, finalized, first>>
    /\ LET t == transfer
           c == log[i].to
           pos == firstContractPosition(t.assets, 1)
           tx == buildSettlementTx(t, At(t.outputs, t.assets[pos].idx).value)
           outs == Append(tx.outs, DataOutput)
           data == addSettlementData(c, t, [ins |-> tx.ins, outs |-> outs],
                                     log[i].settled, cache[c], FALSE)
           qty == data.qty @@ log[i].qty
           own == OwnInputs(t, tx.ins, c)
           next == nextContractIndex(t, c)
       IN IF c \notin txStore \/ pos > Len(t.assets)
             \/ t.assets[pos].idx >= Len(t.outputs)
          THEN HandlerError(i) /\ UNCHANGED txStore
          ELSE IF tx.err THEN HandlerError(i) /\ UNCHANGED txStore
          ELSE IF c \in moved
          THEN respondTransferMessageReject(c, i, ContractMoved) /\ UNCHANGED txStore
          ELSE IF data.res = "reject"
          THEN respondTransferMessageReject(c, i, data.code) /\ UNCHANGED txStore
          ELSE IF data.res = "error" THEN HandlerError(i) /\ UNCHANGED txStore
          ELSE IF settlementIsComplete(t, data.settled)
          THEN /\ UNCHANGED txStore
               /\ IF own = {} THEN HandlerError(i)
                  ELSE IF broadcastReady(tx.ins, own)
                  THEN /\ log' = Append(log, [Tx("Settlement", c, "") EXCEPT
                                                !.outs = outs, !.ins = tx.ins,
                                                !.signed = own,
                                                !.settled = data.settled,
                                                !.qty = qty])
                       /\ msgs' = msgs \ {i}
                  ELSE /\ log' = Append(log,
                                   [Tx("SignatureRequest", c,
                                       previousContract(t, tx.ins, own)) EXCEPT
                                        !.spends = <<"message", 0>>,
                                        !.outs = outs, !.ins = tx.ins,
                                        !.signed = own,
                                        !.settled = data.settled,
                                        !.qty = qty])
                       /\ msgs' = (msgs \ {i}) \cup {Len(log) + 1}
          ELSE /\ txStore' = txStore \cup {c}
               /\ IF next \in {-1, NoContract} THEN HandlerError(i)
                  ELSE /\ log' = Append(log,
                                   [Tx("SettlementRequest", c, At(t.outputs, next).addr)
                                        EXCEPT !.spends = <<"message", 0>>,
                                               !.settled = data.settled,
                                               !.qty = qty])
                       /\ msgs' = (msgs \ {i}) \cup {Len(log) + 1}

\* Message.processSigRequestSettlement
processSigRequestSettlement(i) ==
    /\ i \in msgs
    /\ log[i].kind = "SignatureRequest"
    /\ log[i].to \in handled
    /\ UNCHANGED <<nodeVars, invVars, transfer, opening, moved, frozen, handled, result, txStore, statuses, cache,
                   finalized, first>>
    /\ LET t == transfer
           c == log[i].to
           m == log[i]
           check == verifySettlement(c, t, m.outs, m.settled, c \in frozen)
           own == OwnInputs(t, m.ins, c)
           signed == m.signed \cup own
       IN IF c \notin txStore THEN HandlerError(i) /\ UNCHANGED <<pending, job>>
          ELSE IF c \in moved
          THEN respondTransferMessageReject(c, i, ContractMoved)
               /\ UNCHANGED <<pending, job>>
          ELSE IF check = "reject"
          THEN respondTransferMessageReject(c, i, HoldingsFrozen)
               /\ UNCHANGED <<pending, job>>
          ELSE IF check = "error" \/ own = {}
          THEN HandlerError(i) /\ UNCHANGED <<pending, job>>
          ELSE IF broadcastReady(m.ins, signed)
          THEN IF c \notin pending
               THEN HandlerError(i) /\ UNCHANGED <<pending, job>>
               ELSE /\ pending' = pending \ {c}
                    /\ job' = [job EXCEPT ![c] = CancelJob(@)]
                    /\ log' = Append(log, [Tx("Settlement", c, "") EXCEPT
                                             !.outs = m.outs, !.ins = m.ins,
                                             !.signed = signed,
                                             !.settled = m.settled,
                                             !.qty = m.qty])
                    /\ msgs' = msgs \ {i}
          ELSE /\ log' = Append(log,
                           [Tx("SignatureRequest", c, previousContract(t, m.ins, signed))
                                EXCEPT !.spends = <<"message", 0>>,
                                       !.outs = m.outs, !.ins = m.ins,
                                       !.signed = signed, !.settled = m.settled,
                                       !.qty = m.qty])
               /\ msgs' = (msgs \ {i}) \cup {Len(log) + 1}
               /\ UNCHANGED <<pending, job>>

\* Message.ProcessRejection and refundTransferFromReject
ProcessRejection(i) ==
    /\ i \in msgs
    /\ log[i].kind = "Rejection"
    /\ log[i].to \in handled
    /\ UNCHANGED <<nodeVars, invVars, transfer, opening, moved, frozen, handled, result, txStore, statuses, cache,
                   finalized, first>>
    /\ LET t == transfer
           c == log[i].to
           f == firstContractOutputIndex(t.assets, Len(t.outputs))
           boom == findBoomerangIndex(t, c)
           balance == utxoBalance(t, c, boom) + MessageValue
       IN IF c \notin txStore \/ c \notin pending
          THEN HandlerError(i) /\ UNCHANGED <<pending, job>>
          ELSE /\ pending' = pending \ {c}
               /\ job' = [job EXCEPT ![c] = CancelJob(@)]
               /\ IF f = NoContract \/ At(t.outputs, f).addr # c \/ boom = NoBoomerang
                  THEN HandlerError(i)
                  ELSE /\ log' = Append(log,
                                   RejectionTx(c, "", log[i].code,
                                               refundOutputs(t, balance),
                                               t.inputs[1].addr, balance))
                       /\ msgs' = msgs \ {i}

\* Faulty variant: the settlement is observed and nothing is finalized.
finalizeHoldingsNone(held, qty) == held

\* The finalize loop of SettlementResponse: every settlement quantity of an
\* asset of the contract becomes the finalized balance of its holding.
finalizeHoldings(held, qty) ==
    [k \in DOMAIN held |-> IF k \in DOMAIN qty
                           THEN FinalizeTx(held[k], TransferTxId, qty[k])
                           ELSE held[k]]

\* Transfer.SettlementResponse: the broadcast settlement is seen by every
\* contract that owns one of its inputs, and may be seen again.
SettlementResponse(c) ==
    /\ c \notin moved
    /\ \E i \in 1..Len(log) :
          /\ log[i].kind = "Settlement"
          /\ OwnInputs(transfer, log[i].ins, c) # {}
          /\ cache' = [cache EXCEPT ![c] = finalizeHoldings(@, log[i].qty)]
    /\ finalized' = finalized \cup {c}
    /\ statuses' = [statuses EXCEPT ![c] = @ \ ownHoldings(transfer, c)]
    /\ UNCHANGED <<nodeVars, invVars, transfer, opening, moved, frozen, handled, result, txStore, pending, job,
                   log, msgs, first>>

\* contract.MovedTo is set by a contract address change.
ContractAddressChange(c) ==
    /\ Cardinality(moved) + Cardinality(frozen) < MaxEnvEvents
    /\ \E i \in 1..Len(transfer.outputs) : transfer.outputs[i].addr = c
    /\ c \notin moved
    /\ moved' = moved \cup {c}
    /\ UNCHANGED <<nodeVars, invVars, transfer, opening, frozen, handled, result, txStore, pending, job,
                   statuses, cache, finalized, log, msgs, first>>

\* An enforcement order freezes the sender holdings of a contract.
FreezeHoldings(c) ==
    /\ Cardinality(moved) + Cardinality(frozen) < MaxEnvEvents
    /\ \E i \in 1..Len(transfer.outputs) : transfer.outputs[i].addr = c
    /\ c \notin frozen
    /\ frozen' = frozen \cup {c}
    /\ cache' = [cache EXCEPT ![c] =
                    [k \in DOMAIN @ |->
                        [@[k] EXCEPT !.st = @ \cup {[tx |-> "order", code |-> "frozen",
                                                      amount |-> cache[c][k].fin,
                                                      settle |-> 0]}]]]
    /\ UNCHANGED <<nodeVars, invVars, transfer, opening, moved, handled, result, txStore, pending, job,
                   statuses, finalized, log, msgs, first>>

Next ==
    \/ \E c \in Contracts : TransferRequest(c)
    \/ \E c \in Contracts : TransferTimeout(c)
    \/ \E i \in msgs : processSettlementRequest(i)
    \/ \E i \in msgs : processSigRequestSettlement(i)
    \/ \E i \in msgs : ProcessRejection(i)
    \/ \E c \in Contracts : SettlementResponse(c)
    \/ \E c \in Contracts : ContractAddressChange(c)
    \/ \E c \in Contracts : FreezeHoldings(c)

Spec == Init /\ [][Next]_vars

\* ------------------------------------------------------------------------
\* Transfers against a ledger of holdings
\* ------------------------------------------------------------------------
\* Largest quantity moved by one sender or receiver, and largest balance.
MaxQty == 2

\* The asset whose senders, receivers and holdings vary.
LedgerCode == 1

LedgerSenders ==
    {<<[index |-> 0, qty |-> q]>> : q \in 1..MaxQty}
    \cup {<<[index |-> 0, qty |-> q1], [index |-> i, qty |-> q2]>> :
            q1 \in 1..MaxQty, q2 \in 1..MaxQty, i \in {0, 1}}

LedgerReceivers ==
    {<<[addr |-> a, qty |-> q]>> : a \in {"u1", "u3"}, q \in 1..MaxQty}
    \cup {<<[addr |-> "u3", qty |-> q1], [addr |-> "u3", qty |-> q2]>> :
            q1 \in 1..MaxQty, q2 \in 1..MaxQty}

\* One enforcement order at most stands on a holding of the asset.
LedgerBlocks ==
    {[party |-> "", code |-> ""]}
    \cup {[party |-> u, code |-> k] : u \in {"u1", "u2"}, k \in {"frozen", "locked"}}

\* shape "single": one contract; "first", "second": two contracts and a
\* boomerang, the asset under the first or the second contract, a plain asset
\* under the other.
LedgerTransfer(shape, senders, receivers) ==
    LET varied == [btcType |-> FALSE, code |-> LedgerCode,
                   idx |-> IF shape = "second" THEN 1 ELSE 0,
                   senders |-> senders, receivers |-> receivers]
        plain == [btcType |-> FALSE, code |-> LedgerCode + 1,
                  idx |-> IF shape = "second" THEN 0 ELSE 1,
                  senders |-> <<[index |-> 0, qty |-> 1]>>,
                  receivers |-> <<[addr |-> "u2", qty |-> 1]>>]
        out(c, v) == [addr |-> c, value |-> v]
    IN [outputs |-> IF shape = "single" THEN <<out("c1", MaxFunding)>>
                    ELSE <<out("c1", MaxFunding), out("c2", MaxFunding),
                           out("c1", DustLimit)>>,
        inputs |-> <<[addr |-> "u1", value |-> InputValue],
                     [addr |-> "u2", value |-> InputValue]>>,
        assets |-> IF shape = "single" THEN <<varied>>
                   ELSE IF shape = "first" THEN <<varied, plain>>
                   ELSE <<plain, varied>>]

\* The cache of every contract: the holdings of the asset have the balances
\* bal, one of them under the order block; every other holding has balance 1.
LedgerCache(t, bal, block) ==
    [c \in Contracts |->
        [k \in Fetched(t) |->
            IF k[1] # LedgerCode THEN NewHolding(1)
            ELSE [NewHolding(bal[k[2]]) EXCEPT
                    !.st = IF block.party = k[2]
                           THEN {[tx |-> "order", code |-> block.code,
                                  amount |-> bal[k[2]], settle |-> 0]}
                           ELSE {}]]]

LedgerBalances ==
    {[u1 |-> a, u2 |-> b, u3 |-> c] : a \in 0..MaxQty, b \in {0, MaxQty}, c \in {0, 1}}

InitLedger ==
    /\ NodeIdle
    /\ \E shape \in {"single", "first", "second"}, senders \in LedgerSenders,
          receivers \in LedgerReceivers, bal \in LedgerBalances,
          block \in LedgerBlocks :
          /\ transfer = LedgerTransfer(shape, senders, receivers)
          /\ cache = LedgerCache(transfer, bal, block)
          /\ frozen = IF block.code = "frozen"
                         /\ <<LedgerCode, block.party>> \in Fetched(transfer)
                      THEN {IF shape = "second" THEN "c2" ELSE "c1"} ELSE {}
    /\ opening = cache
    /\ moved = {}
    /\ handled = {}
    /\ result = [c \in Contracts |-> "none"]
    /\ txStore = {}
    /\ pending = {}
    /\ job = [c \in Contracts |-> "none"]
    /\ statuses = [c \in Contracts |-> {}]
    /\ finalized = {}
    /\ log = << >>
    /\ msgs = {}
    /\ first = -1

NextLedger ==
    \/ \E c \in Contracts : TransferRequest(c)
    \/ \E c \in Contracts : TransferTimeout(c)
    \/ \E i \in msgs : processSettlementRequest(i)
    \/ \E i \in msgs : processSigRequestSettlement(i)
    \/ \E i \in msgs : ProcessRejection(i)
    \/ \E c \in Contracts : SettlementResponse(c)

SpecLedger == InitLedger /\ [][NextLedger]_vars

\* ------------------------------------------------------------------------
\* firstContractOutputIndex on arbitrary asset lists
\* ------------------------------------------------------------------------
AssetEntries ==
    {[btcType |-> b, code |-> k, idx |-> x, senders |-> << >>, receivers |-> << >>] :
        b \in BOOLEAN, k \in {0, 1}, x \in (0..MaxOutputs) \cup {NoContract}}

AssetLists == UNION {[1..n -> AssetEntries] : n \in 0..MaxAssets}

InitFirst ==
    /\ NodeIdle
    /\ transfer \in {[outputs |-> [i \in 1..MaxOutputs |->
                                      [addr |-> "c1", value |-> DustLimit]],
                      inputs |-> << >>, assets |-> a] : a \in AssetLists}
    /\ moved = {}
    /\ frozen = {}
    /\ handled = {}
    /\ result = [c \in Contracts |-> "none"]
    /\ txStore = {}
    /\ pending = {}
    /\ job = [c \in Contracts |-> "none"]
    /\ statuses = [c \in Contracts |-> {}]
    /\ cache = OpeningCache(transfer, 1)
    /\ opening = cache
    /\ finalized = {}
    /\ log = << >>
    /\ msgs = {}
    /\ first = -1

ComputeFirst ==
    /\ first = -1
    /\ first' = firstContractOutputIndex(transfer.assets, Len(transfer.outputs))
    /\ UNCHANGED <<nodeVars, invVars, transfer, opening, moved, frozen, handled, result, txStore, pending, job,
                   statuses, cache, finalized, log, msgs>>

NextFirst == ComputeFirst

SpecFirst == InitFirst /\ [][NextFirst]_vars

\* ------------------------------------------------------------------------
\* sendToNextSettlementContract on arbitrary asset lists
\* ------------------------------------------------------------------------
\* The entries of the asset lists the relay is tried on: token entries name
\* an output of the transfer tx, bitcoin entries carry any contract index.
RelayEntries ==
    {[btcType |-> FALSE, code |-> 1, idx |-> x, senders |-> << >>,
      receivers |-> << >>] : x \in 0..Len(ContractSeq)}
    \cup {[btcType |-> TRUE, code |-> 0, idx |-> x, senders |-> << >>,
           receivers |-> << >>] : x \in (0..Len(ContractSeq)) \cup {NoContract}}

\* One output per contract and a last output that pays any one of them.
RelayTransfers ==
    {[outputs |-> [i \in 1..Len(ContractSeq) |->
                      [addr |-> ContractSeq[i], value |-> DustLimit]]
                  \o <<[addr |-> e, value |-> DustLimit]>>,
      inputs |-> << >>,
      assets |-> a] :
        e \in Contracts,
        a \in UNION {[1..n -> RelayEntries] : n \in 0..MaxAssets}}

InitRelay ==
    /\ NodeIdle
    /\ transfer \in RelayTransfers
    /\ moved = {}
    /\ frozen = {}
    /\ handled = {}
    /\ result = [c \in Contracts |-> "none"]
    /\ txStore = {}
    /\ pending = {}
    /\ job = [c \in Contracts |-> "none"]
    /\ statuses = [c \in Contracts |-> {}]
    /\ cache = OpeningCache(transfer, 1)
    /\ opening = cache
    /\ finalized = {}
    /\ log = << >>
    /\ msgs = {}
    /\ first = -1

\* sendToNextSettlementContract: contract c sends the settlement request to
\* the next contract.  Called on the transfer tx it is funded by the
\* boomerang output, called on a message by the only output of the message.
sendToNextSettlementContract(c, onTransfer) ==
    LET t == transfer
        boomerangIndex == IF onTransfer THEN findBoomerangIndex(t, c) ELSE 0
        next == nextContractIndex(t, c)
    IN /\ boomerangIndex # NoBoomerang
       /\ next \notin {-1, NoContract}
       /\ log' = Append(log,
                    [Tx("SettlementRequest", c, At(t.outputs, next).addr) EXCEPT
                        !.spends = <<IF onTransfer THEN "transfer" ELSE "message",
                                     boomerangIndex>>])
       /\ UNCHANGED <<nodeVars, invVars, transfer, opening, moved, frozen, handled, result, txStore, pending,
                      job, statuses, cache, finalized, msgs, first>>

\* The first contract starts the relay of a transfer that is not its own alone.
RelayStart ==
    /\ log = << >>
    /\ LET f == firstContractOutputIndex(transfer.assets, Len(transfer.outputs))
       IN /\ f # NoContract
          /\ ~transferIsSingleContract(transfer, At(transfer.outputs, f).addr)
          /\ sendToNextSettlementContract(At(transfer.outputs, f).addr, TRUE)

\* The contract that received the last settlement request passes it on.
RelayForward ==
    /\ log # << >>
    /\ sendToNextSettlementContract(log[Len(log)].to, FALSE)

NextRelay == RelayStart \/ RelayForward

SpecRelay == InitRelay /\ [][NextRelay]_vars

\* ------------------------------------------------------------------------
\* Properties
\* ------------------------------------------------------------------------
\* The first non-bitcoin entry of the asset list, 0 when there is none.
FirstTokenPosition ==
    IF \E k \in 1..Len(transfer.assets) : ~IsBitcoin(transfer.assets[k])
    THEN CHOOSE k \in 1..Len(transfer.assets) :
            /\ ~IsBitcoin(transfer.assets[k])
            /\ \A j \in 1..(k - 1) : IsBitcoin(transfer.assets[j])
    ELSE 0

\* The contracts named by the non-bitcoin assets of the transfer.
Involved ==
    {At(transfer.outputs, transfer.assets[k].idx).addr :
        k \in {x \in 1..Len(transfer.assets) :
                  /\ ~IsBitcoin(transfer.assets[x])
                  /\ transfer.assets[x].idx < Len(transfer.outputs)}}

\* The address of the first contract ("" when no entry names one).
FirstAddr ==
    IF FirstTokenPosition = 0
       \/ transfer.assets[Max(FirstTokenPosition, 1)].idx >= Len(transfer.outputs)
    THEN ""
    ELSE At(transfer.outputs, transfer.assets[FirstTokenPosition].idx).addr

Emitted(kind) == {i \in 1..Len(log) : log[i].kind = kind}

\* A rejection that addresses the users of the transfer.
UserRejections(c) == {i \in Emitted("Rejection") : log[i].by = c /\ log[i].to = ""}

RECURSIVE SumQty(_, _)
\* The quantity the senders of list s whose input index is in S send.
SumQty(s, S) ==
    IF s = << >> THEN 0
    ELSE (IF Head(s).index \in S THEN Head(s).qty ELSE 0) + SumQty(Tail(s), S)

RECURSIVE BitcoinSentFrom(_, _)
\* The bitcoin quantity the transfer's bitcoin entries send from the inputs S.
BitcoinSentFrom(k, S) ==
    IF k > Len(transfer.assets) THEN 0
    ELSE (IF IsBitcoin(transfer.assets[k])
          THEN SumQty(transfer.assets[k].senders, S) ELSE 0)
         + BitcoinSentFrom(k + 1, S)

InputsOf(addr) ==
    {x \in 0..(Len(transfer.inputs) - 1) : At(transfer.inputs, x).addr = addr}

BitcoinSenderAddrs ==
    {At(transfer.inputs, x).addr :
        x \in {y \in 0..(Len(transfer.inputs) - 1) : BitcoinSentFrom(1, {y}) > 0}}

\* The refund policy a rejection tx follows: with funding short of the bitcoin
\* sent no output carries more than dust and the change goes to the
\* administration; else every bitcoin sender is paid all it sent.
RefundPolicy(tx) ==
    IF BitcoinSentFrom(1, 0..(Len(transfer.inputs) - 1)) > tx.funding
    THEN /\ tx.change = Admin
         /\ \A o \in 1..Len(tx.outs) : tx.outs[o].value <= DustLimit
    ELSE /\ tx.change # Admin
         /\ \A a \in BitcoinSenderAddrs :
               \E o \in 1..Len(tx.outs) :
                  /\ tx.outs[o].addr = a
                  /\ tx.outs[o].value = Max(BitcoinSentFrom(1, InputsOf(a)), DustLimit)

\* C1: a settlement tx is broadcast only with every input signed and every
\* non-bitcoin asset settled in its payload; a contract that has signed while
\* an input is still unsigned has sent a signature request, not a broadcast.
C1_BroadcastOnlyFullySigned ==
    /\ \A i \in Emitted("Settlement") :
          /\ \A k \in 1..Len(log[i].ins) : k \in log[i].signed
          /\ \A c \in Involved :
                \E k \in 1..Len(log[i].ins) :
                    /\ At(transfer.outputs, log[i].ins[k]).addr = c
                    /\ k \in log[i].signed
          /\ \A k \in 1..Len(transfer.assets) :
                IsBitcoin(transfer.assets[k])
                \/ \E x \in 1..Len(log[i].settled) :
                      log[i].settled[x] = transfer.assets[k].code
    /\ \A i \in Emitted("SignatureRequest") :
          /\ \E k \in 1..Len(log[i].ins) : k \notin log[i].signed
          /\ \A k \in 1..Len(log[i].ins) :
                At(transfer.outputs, log[i].ins[k]).addr = log[i].by
                    => k \in log[i].signed

\* C1 witness: a settlement with inputs of several contracts was broadcast.
C1_Witness ==
    \E i \in Emitted("Settlement") :
        Len(log[i].ins) >= 2 /\ Cardinality(Involved) >= 2

TwoContracts == Cardinality(Involved) = 2 /\ FirstAddr # ""

SecondAddr == CHOOSE c \in Involved : c # FirstAddr

\* An output index that pays the first contract and that no asset names.
IsBoomerang(x) ==
    /\ x \in 0..(Len(transfer.outputs) - 1)
    /\ At(transfer.outputs, x).addr = FirstAddr
    /\ \A k \in 1..Len(transfer.assets) :
          IsBitcoin(transfer.assets[k]) \/ transfer.assets[k].idx # x

\* C2: in a two-contract transfer a signature request is sent by the second
\* contract to the first after the first sent it a settlement request that
\* spends the boomerang output; the settlement is broadcast by the first
\* contract after that signature request; no contract finalizes before the
\* broadcast.
C2_TwoContractOrder ==
    TwoContracts =>
        /\ \A j \in Emitted("SignatureRequest") :
              /\ log[j].by = SecondAddr
              /\ log[j].to = FirstAddr
              /\ \E i \in 1..(j - 1) :
                    /\ log[i].kind = "SettlementRequest"
                    /\ log[i].by = FirstAddr
                    /\ log[i].to = SecondAddr
        /\ \A i \in Emitted("SettlementRequest") :
              /\ log[i].by = FirstAddr
              /\ log[i].to = SecondAddr
              /\ log[i].spends[1] = "transfer"
              /\ IsBoomerang(log[i].spends[2])
        /\ \A k \in Emitted("Settlement") :
              /\ log[k].by = FirstAddr
              /\ \E j \in 1..(k - 1) : log[j].kind = "SignatureRequest"
        /\ finalized # {} => Emitted("Settlement") # {}

\* C2 witness: both contracts of a two-contract transfer have finalized.
C2_Witness == TwoContracts /\ finalized = Involved /\ Emitted("Rejection") = {}

\* The first contract has sent the settlement request of a transfer of two
\* or more contracts.
RelayStarted ==
    /\ Cardinality(Involved) >= 2
    /\ FirstAddr # ""
    /\ \E i \in Emitted("SettlementRequest") : log[i].by = FirstAddr

\* C3: once the relay of a transfer of two or more contracts has started and
\* every message was handled, with no rejection, no timeout, no address
\* change and no freeze, exactly one settlement was broadcast and every
\* involved contract took part in the round.
C3_RelayCompletes ==
    (/\ RelayStarted
     /\ msgs = {}
     /\ Emitted("Rejection") = {}
     /\ job[FirstAddr] # "fired"
     /\ moved = {}
     /\ frozen = {})
    => /\ Cardinality(Emitted("Settlement")) = 1
       /\ \A c \in Involved : \E i \in 1..Len(log) : log[i].by = c

\* The transfer is a live multi-contract transfer of its first contract: the
\* settlement request is out and there was no broadcast, no rejection by the
\* first contract and no timeout.
LiveMulti ==
    /\ RelayStarted
    /\ Emitted("Settlement") = {}
    /\ UserRejections(FirstAddr) = {}
    /\ job[FirstAddr] # "fired"

\* C4: a contract holds a pending-transfer record exactly when it is the
\* first contract of a live multi-contract transfer.
C4_PendingExactlyWhileLive ==
    \A c \in Contracts : c \in pending <=> (c = FirstAddr /\ LiveMulti)

\* C5: after the timeout job of a contract has run the contract holds no
\* pending-transfer record and none of the pending statuses of the transfer,
\* and it has emitted a rejection with code timeout that refunds the bitcoin
\* senders.
C5_TimeoutRejects ==
    \A c \in Contracts :
        job[c] = "fired" =>
            /\ c = FirstAddr
            /\ c \notin pending
            /\ statuses[c] = {}
            /\ Emitted("Settlement") = {}
            /\ \E i \in UserRejections(c) :
                  /\ log[i].code = Timeout
                  /\ RefundPolicy(log[i])
                  /\ \A x \in 0..(Len(transfer.inputs) - 1) :
                        (\E k \in 1..Len(transfer.assets) :
                            /\ IsBitcoin(transfer.assets[k])
                            /\ \E j \in 1..Len(transfer.assets[k].senders) :
                                  transfer.assets[k].senders[j].index = x)
                        => \E o \in 1..Len(log[i].outs) :
                              log[i].outs[o].addr = At(transfer.inputs, x).addr

\* C5 witness: the timeout of a transfer with bitcoin senders has fired while
\* the first contract held pending statuses.
C5_Witness ==
    /\ \E c \in Contracts : job[c] = "fired"
    /\ \E k \in 1..Len(transfer.assets) :
          IsBitcoin(transfer.assets[k]) /\ transfer.assets[k].senders # << >>
    /\ ownHoldings(transfer, FirstAddr) # {}

\* C6: once the first contract of a two-contract transfer has handled the
\* rejection of the second contract it holds none of the pending statuses of
\* the transfer, no pending-transfer record and no scheduled timeout, and it
\* has emitted a rejection that refunds the bitcoin senders.
C6_PeerRejectionHandled ==
    TwoContracts =>
        \A i \in Emitted("Rejection") :
            (log[i].by = SecondAddr /\ log[i].to = FirstAddr /\ i \notin msgs)
            => /\ statuses[FirstAddr] = {}
               /\ FirstAddr \notin pending
               /\ job[FirstAddr] # "scheduled"
               /\ \E j \in UserRejections(FirstAddr) : RefundPolicy(log[j])

\* C7: every rejection the first contract addresses to the users either pays
\* every bitcoin sender all it sent or, the funding being short of the
\* bitcoin sent, pays no output more than dust and leaves the change to the
\* administration address.
C7_RefundAllOrNone ==
    \A c \in Contracts : \A i \in UserRejections(c) : RefundPolicy(log[i])

\* C7 witness: the first contract has rejected a transfer whose funding is
\* short of the bitcoin its senders sent.
C7_Witness ==
    \E i \in UserRejections(FirstAddr) :
        /\ BitcoinSentFrom(1, 0..(Len(transfer.inputs) - 1)) > log[i].funding
        /\ Cardinality(BitcoinSenderAddrs) >= 2

\* C8: a rejection with an output to a user is emitted by the first contract
\* only; the rejection of any other contract is addressed to the first
\* contract and pays the first contract only.
C8_OnlyFirstRefunds ==
    \A i \in Emitted("Rejection") :
        /\ (\E o \in 1..Len(log[i].outs) : log[i].outs[o].addr \in Users \cup {Admin})
              => log[i].by = FirstAddr
        /\ log[i].by # FirstAddr =>
              /\ log[i].to = FirstAddr
              /\ \A o \in 1..Len(log[i].outs) : log[i].outs[o].addr = FirstAddr
              /\ log[i].change = FirstAddr

\* C8 witness: a contract that is not the first has rejected a transfer that
\* has bitcoin or token senders.
C8_Witness ==
    \E i \in Emitted("Rejection") : log[i].by # FirstAddr /\ FirstAddr # ""

\* C9: the first contract is the contract index of the first entry of the
\* asset list that is not a bitcoin entry.
C9_FirstNonBitcoinEntry ==
    first # -1 =>
        first = IF FirstTokenPosition = 0 THEN NoContract
                ELSE transfer.assets[FirstTokenPosition].idx

AllBitcoin ==
    /\ transfer.assets # << >>
    /\ \A k \in 1..Len(transfer.assets) : IsBitcoin(transfer.assets[k])

\* C10 as stated: the handler of a transfer whose entries are all bitcoin
\* entries does not fail.
C10_BitcoinOnlyHandled ==
    AllBitcoin => \A c \in handled : result[c] # "error"

\* C10 as amended: a transfer whose entries are all bitcoin entries names no
\* first contract; the handler fails, emits nothing, saves nothing.
C10_BitcoinOnlyFails ==
    AllBitcoin =>
        /\ first \in {-1, NoContract}
        /\ \A c \in handled : result[c] = "error"
        /\ log = << >>
        /\ pending = {}
        /\ txStore = {}
        /\ \A c \in Contracts : statuses[c] = {} /\ job[c] = "none"

\* C10 witness: the handler has run on a transfer whose entries are all
\* bitcoin entries, with senders to refund.
C10_Witness ==
    /\ AllBitcoin
    /\ handled # {}
    /\ BitcoinSenderAddrs # {}

RECURSIVE ReferencedFrom(_, _)
\* The contracts the non-bitcoin entries of the asset list name, each once,
\* in the order of their first appearance.
ReferencedFrom(k, acc) ==
    IF k > Len(transfer.assets) THEN acc
    ELSE LET a == transfer.assets[k] IN
         IF IsBitcoin(a) \/ a.idx >= Len(transfer.outputs)
         THEN ReferencedFrom(k + 1, acc)
         ELSE LET addr == At(transfer.outputs, a.idx).addr IN
              IF \E i \in 1..Len(acc) : acc[i] = addr
              THEN ReferencedFrom(k + 1, acc)
              ELSE ReferencedFrom(k + 1, Append(acc, addr))

\* The contracts the relay has reached so far, the first contract included.
Visited == <<log[1].by>> \o [i \in 1..Len(log) |-> log[i].to]

\* C11: the relay that starts at the first contract reaches the contracts
\* named by the non-bitcoin asset entries in the order of their first
\* appearance, each once, and ends only when all of them were reached; a
\* settlement request never goes to its sender nor to a contract reached
\* before.
C11_RelayVisitsEachOnce ==
    log # << >> =>
        LET v == Visited
            e == ReferencedFrom(1, << >>)
        IN /\ Len(v) <= Len(e)
           /\ \A i \in 1..Len(v) : i <= Len(e) => v[i] = e[i]
           /\ nextContractIndex(transfer, v[Len(v)]) = NoContract => v = e
           /\ \A i \in 1..Len(log) :
                 /\ log[i].to # log[i].by
                 /\ \A j \in 1..i : v[j] # log[i].to

\* The settlement requests the first contract funds from the transfer tx.
BoomerangSpends == {i \in Emitted("SettlementRequest") : log[i].spends[1] = "transfer"}

\* C12 as stated: the boomerang output pays the contract that spends it and
\* its index is the contract index of no asset entry of the transfer.
C12_BoomerangUnreferenced ==
    \A i \in BoomerangSpends :
        /\ At(transfer.outputs, log[i].spends[2]).addr = log[i].by
        /\ \A k \in 1..Len(transfer.assets) :
              transfer.assets[k].idx # log[i].spends[2]

\* C12 as amended: the boomerang output pays the first contract, its index is
\* the contract index of no non-bitcoin asset entry, and it is no input of
\* the settlement tx.
C12_BoomerangNotSpent ==
    \A i \in BoomerangSpends :
        /\ log[i].by = At(transfer.outputs,
                          firstContractOutputIndex(transfer.assets,
                                                   Len(transfer.outputs))).addr
        /\ At(transfer.outputs, log[i].spends[2]).addr = log[i].by
        /\ \A k \in 1..Len(transfer.assets) :
              ~IsBitcoin(transfer.assets[k])
                  => transfer.assets[k].idx # log[i].spends[2]
        /\ LET ins == settleInputsFrom(transfer, 1,
                                       [err |-> FALSE, ins |-> << >>]).ins
           IN \A x \in 1..Len(ins) : ins[x] # log[i].spends[2]

\* C12 witness: the first contract has two outputs, one named by a token
\* entry and spent by the settlement tx, the other chosen as boomerang while
\* a bitcoin entry carries its index.
C12_Witness ==
    \E i \in BoomerangSpends :
        /\ \E k \in 1..Len(transfer.assets) :
              /\ ~IsBitcoin(transfer.assets[k])
              /\ transfer.assets[k].idx # log[i].spends[2]
              /\ At(transfer.outputs, transfer.assets[k].idx).addr = log[i].by
        /\ \E k \in 1..Len(transfer.assets) :
              /\ IsBitcoin(transfer.assets[k])
              /\ transfer.assets[k].idx = log[i].spends[2]


\* ------------------------------------------------------------------------
\* One holding under several transfers
\* ------------------------------------------------------------------------
\* Largest balance followed.
MaxBalance == 4

\* The holding followed: that of u1 for the asset, in the cache of c1.
HeldKey == <<LedgerCode, "u1">>

Held == cache["c1"][HeldKey]

InitHoldings ==
    /\ NodeIdle
    /\ transfer = LedgerTransfer("single", <<[index |-> 0, qty |-> 1]>>,
                                 <<[addr |-> "u3", qty |-> 1]>>)
    /\ \E b \in 0..MaxQty :
          cache = [c \in Contracts |-> [k \in Fetched(transfer) |-> NewHolding(b)]]
    /\ opening = cache
    /\ frozen = {}
    /\ moved = {}
    /\ handled = {}
    /\ result = [c \in Contracts |-> "none"]
    /\ txStore = {}
    /\ pending = {}
    /\ job = [c \in Contracts |-> "none"]
    /\ statuses = [c \in Contracts |-> {}]
    /\ finalized = {}
    /\ log = << >>
    /\ msgs = {}
    /\ first = -1

\* The holding is fetched, changed to h and saved (balances are followed
\* from 0 to MaxBalance).
HeldBecomes(h) ==
    /\ h.fin \in 0..MaxBalance
    /\ h.pend \in 0..MaxBalance
    /\ cache' = [cache EXCEPT !["c1"][HeldKey] = h]
    /\ UNCHANGED <<nodeVars, invVars, transfer, opening, moved, frozen, handled, result, txStore,
                   pending, job, statuses, finalized, log, msgs, first>>

\* addSettlementData of transfer tx debits the holding.
HoldingDebit(tx, qty, single) ==
    /\ AddDebit(Held, tx, qty, single).err = ""
    /\ HeldBecomes(AddDebit(Held, tx, qty, single).h)

\* addSettlementData of transfer tx deposits into the holding.
HoldingDeposit(tx, qty, single) ==
    /\ AddDeposit(Held, tx, qty, single).err = ""
    /\ HeldBecomes(AddDeposit(Held, tx, qty, single).h)

\* SettlementResponse of transfer tx: the settlement quantity is the pending
\* balance the holding had when the settlement of tx was built.
HoldingFinalize(tx) ==
    /\ HasTx(Held, tx)
    /\ \E x \in Held.st :
          /\ x.tx = tx
          /\ HeldBecomes(FinalizeTx(Held, tx, x.settle))

\* respondTransferReject of transfer tx.
HoldingRevert(tx) ==
    /\ HasTx(Held, tx)
    /\ HeldBecomes(RevertStatus(Held, tx))

NextHoldings ==
    \/ \E tx \in TxIds, qty \in 1..MaxQty, single \in BOOLEAN :
          HoldingDebit(tx, qty, single)
    \/ \E tx \in TxIds, qty \in 1..MaxQty, single \in BOOLEAN :
          HoldingDeposit(tx, qty, single)
    \/ \E tx \in TxIds : HoldingFinalize(tx)
    \/ \E tx \in TxIds : HoldingRevert(tx)

SpecHoldings == InitHoldings /\ [][NextHoldings]_vars

\* C20: after any sequence of AddDebit, AddDeposit, FinalizeTx and
\* RevertStatus on a holding, several transfers pending at once included, the
\* pending balance is the finalized balance plus the pending deposits minus
\* the pending debits.
C20_PendingBalance ==
    Held.pend = Held.fin + StatusSum(Held, "deposit") - StatusSum(Held, "debit")

\* ------------------------------------------------------------------------
\* Transfers against the ledger: what the owning contract answers
\* ------------------------------------------------------------------------
\* The contract that owns asset a of the transfer.
Owner(a) == At(transfer.outputs, a.idx).addr

\* The parties of asset a, senders first.
PartiesOf(a) ==
    [j \in 1..Len(a.senders) |-> At(transfer.inputs, a.senders[j].index).addr]
    \o [j \in 1..Len(a.receivers) |-> a.receivers[j].addr]

HasDuplicateParty(a) ==
    \E i, j \in 1..Len(PartiesOf(a)) : i # j /\ PartiesOf(a)[i] = PartiesOf(a)[j]

RECURSIVE TotalQty(_)
TotalQty(seq) == IF seq = << >> THEN 0 ELSE Head(seq).qty + TotalQty(Tail(seq))

Balanced(a) == TotalQty(a.senders) = TotalQty(a.receivers)

\* No enforcement order stood on a holding of c when the transfer arrived and
\* every sender of asset a held what it sends.
Funded(a) ==
    /\ \A k \in DOMAIN opening[Owner(a)] : opening[Owner(a)][k].st = {}
    /\ \A j \in 1..Len(a.senders) :
          opening[Owner(a)][<<a.code, At(transfer.inputs, a.senders[j].index).addr>>].fin
             >= TotalQty(a.senders)

\* Contract c has run its handler of the transfer's assets: TransferRequest
\* for the first contract, the settlement request for any other.
Answered(c) ==
    IF first # -1 /\ first # NoContract /\ At(transfer.outputs, first).addr = c
    THEN c \in handled
    ELSE \E i \in 1..Len(log) :
            log[i].kind = "SettlementRequest" /\ log[i].to = c /\ i \notin msgs

RejectedWith(c, code) ==
    \E i \in 1..Len(log) :
        log[i].kind = "Rejection" /\ log[i].by = c /\ log[i].code = code

TokenAssets == {transfer.assets[k] : k \in {x \in 1..Len(transfer.assets) :
                                              ~IsBitcoin(transfer.assets[x])}}

\* C13: a party that appears twice among the senders and receivers of one
\* asset makes the contract that owns the asset reject the transfer with
\* msg-malformed (here with every sender funded and no order on a holding, so
\* that no debit fails before the duplicate is met).
C13_DuplicatePartyRejected ==
    \A a \in TokenAssets :
        (HasDuplicateParty(a) /\ Funded(a) /\ Answered(Owner(a)))
            => RejectedWith(Owner(a), MsgMalformed)

\* C14: an asset whose senders do not send what its receivers receive makes
\* the transfer be answered with a Rejection of code msg-malformed.
C14_ImbalanceRejected ==
    \A a \in TokenAssets :
        (~Balanced(a) /\ Funded(a) /\ Answered(Owner(a)))
            => \E c \in Contracts : RejectedWith(c, MsgMalformed)

\* C15: every settlement tx broadcast settles, for every asset of the
\* transfer, a sender total equal to the receiver total.
C15_SettlementsBalanced ==
    \A i \in 1..Len(log) :
        log[i].kind = "Settlement"
            => \A k \in 1..Len(transfer.assets) : Balanced(transfer.assets[k])

\* A settlement of two contracts is broadcast for an asset with two senders.
C15_Witness ==
    \E i \in 1..Len(log) :
        /\ log[i].kind = "Settlement"
        /\ Len(transfer.outputs) > 1
        /\ \E a \in TokenAssets : Len(a.senders) = 2

\* ------------------------------------------------------------------------
\* Bitcoin the contract output cannot fund
\* ------------------------------------------------------------------------
RECURSIVE BitcoinReceived(_)
\* The bitcoin quantity the bitcoin entries from position k on give receivers.
BitcoinReceived(k) ==
    IF k > Len(transfer.assets) THEN 0
    ELSE (IF IsBitcoin(transfer.assets[k])
          THEN TotalQty(transfer.assets[k].receivers) ELSE 0)
         + BitcoinReceived(k + 1)

\* The transfer has a first contract and gives its receivers more bitcoin
\* than the first contract's output holds.
Underfunded ==
    LET f == firstContractOutputIndex(transfer.assets, Len(transfer.outputs))
    IN f # NoContract /\ BitcoinReceived(1) > At(transfer.outputs, f).value

FirstContract ==
    At(transfer.outputs,
       firstContractOutputIndex(transfer.assets, Len(transfer.outputs))).addr

NothingSettled ==
    \A i \in 1..Len(log) : log[i].kind \notin {"Settlement", "SettlementRequest"}

SingleSettled ==
    /\ Len(transfer.outputs) = 1
    /\ Len(transfer.assets) = 1
    /\ LET a == transfer.assets[1]
       IN /\ Len(a.senders) = 1 /\ Len(a.receivers) = 1
          /\ At(transfer.inputs, a.senders[1].index).addr # a.receivers[1].addr
          /\ a.senders[1].qty = a.receivers[1].qty
          /\ Funded(a)
    /\ FirstContract \in finalized

PendingOn(h) == \E x \in h.st : x.tx = TransferTxId

\* C17: after a single-contract transfer of q from A to B has been settled
\* and the settlement observed, A's finalized balance is q less and B's q
\* more than before the transfer, neither holding has a pending status of the
\* transfer, one settlement tx was emitted and no settlement request,
\* pending-transfer record or timeout job was created.
C17_SingleContractTransfer ==
    SingleSettled =>
        LET a == transfer.assets[1]
            c == FirstContract
            A == <<a.code, At(transfer.inputs, a.senders[1].index).addr>>
            B == <<a.code, a.receivers[1].addr>>
            q == a.senders[1].qty
        IN /\ cache[c][A].fin = opening[c][A].fin - q
           /\ cache[c][B].fin = opening[c][B].fin + q
           /\ cache[c][A].pend = cache[c][A].fin
           /\ cache[c][B].pend = cache[c][B].fin
           /\ ~PendingOn(cache[c][A]) /\ ~PendingOn(cache[c][B])
           /\ Cardinality({i \in 1..Len(log) : log[i].kind = "Settlement"}) = 1
           /\ \A i \in 1..Len(log) : log[i].kind = "Settlement"
           /\ pending = {}
           /\ job[c] = "none"

\* The largest quantity has moved to a party that held something already.
C17_Witness ==
    /\ SingleSettled
    /\ transfer.assets[1].senders[1].qty = MaxQty
    /\ opening[FirstContract][<<transfer.assets[1].code,
                                transfer.assets[1].receivers[1].addr>>].fin = 1

\* ------------------------------------------------------------------------
\* A debit that fails
\* ------------------------------------------------------------------------
SenderKey(a, j) == <<a.code, At(transfer.inputs, a.senders[j].index).addr>>

\* What holdings.AddDebit answers for sender j of asset a on the holding the
\* owning contract had when the transfer arrived.
DebitError(a, j) ==
    AddDebit(opening[Owner(a)][SenderKey(a, j)], TransferTxId,
             a.senders[j].qty, FALSE).err

\* The senders of asset a whose debit fails for want of balance or for an
\* order on the holding, no party being met twice up to there.
FailingSenders(a) ==
    {j \in 1..Len(a.senders) :
        /\ DebitError(a, j) \in {InsufficientQuantity, HoldingsFrozen, HoldingsLocked}
        /\ \A i, k \in 1..j : i # k => SenderKey(a, i) # SenderKey(a, k)}

FirstFailing(a) == CHOOSE j \in FailingSenders(a) : \A i \in FailingSenders(a) : j <= i

\* C18: when the debit of a sender fails because the quantity exceeds the
\* safe balance, or the holding is frozen or locked, the contract that owns
\* the asset rejects with insufficient-quantity, holdings-frozen or
\* holdings-locked, and every holding of its cache is what it was before the
\* transfer; when it is the first contract no cache has changed at all.
C18_FailedDebitRejected ==
    \A a \in TokenAssets :
        (FailingSenders(a) # {} /\ Answered(Owner(a)))
            => /\ RejectedWith(Owner(a), DebitError(a, FirstFailing(a)))
               /\ cache[Owner(a)] = opening[Owner(a)]
               /\ Owner(a) = FirstContract => cache = opening

\* The second sender of an asset lacks the quantity, the first sender has
\* been debited before, and the first contract has rejected.
C18_Witness ==
    \E a \in TokenAssets :
        /\ FailingSenders(a) = {2}
        /\ Owner(a) = FirstContract
        /\ Len(transfer.outputs) > 1
        /\ RejectedWith(Owner(a), InsufficientQuantity)

\* ------------------------------------------------------------------------
\* The pending statuses of one holding
\* ------------------------------------------------------------------------
StatusesOf(h, tx) == {x \in h.st : x.tx = tx}

\* The step is the finalize or the revert of tx on the holding followed.
Removes(tx) == HoldingFinalize(tx) \/ HoldingRevert(tx)

\* C21: a holding carries at most one pending status per transfer tx id; a
\* second AddDebit for a tx id that has a status on the holding returns an
\* error and leaves the holding unchanged; and the status of a tx id stays
\* until FinalizeTx or RevertStatus for that tx id removes it.
C21_OneStatusPerTx ==
    /\ [](\A tx \in TxIds :
            /\ Cardinality(StatusesOf(Held, tx)) <= 1
            /\ HasTx(Held, tx) =>
                  \A qty \in 1..MaxQty, single \in BOOLEAN :
                      /\ AddDebit(Held, tx, qty, single).err # ""
                      /\ AddDebit(Held, tx, qty, single).h = Held)
    /\ [][\A tx \in TxIds :
            (StatusesOf(Held, tx) # {} /\ StatusesOf(Held, tx)' # StatusesOf(Held, tx))
                => Removes(tx) /\ StatusesOf(Held, tx)' = {}]_vars

\* Two transfers are pending on the holding, one as a debit.
C21_Witness ==
    /\ \A tx \in TxIds : HasTx(Held, tx)
    /\ \E x \in Held.st : x.code = "debit"

\* ------------------------------------------------------------------------
\* A pending move taken back
\* ------------------------------------------------------------------------
\* A pending debit or deposit of the transfer on holding h, then its revert,
\* gives h back.
RevertRestores(h) ==
    \A qty \in 1..MaxQty :
        /\ AddDebit(h, TransferTxId, qty, FALSE).err = ""
              => RevertStatus(AddDebit(h, TransferTxId, qty, FALSE).h, TransferTxId) = h
        /\ AddDeposit(h, TransferTxId, qty, FALSE).err = ""
              => RevertStatus(AddDeposit(h, TransferTxId, qty, FALSE).h, TransferTxId) = h

\* C22: AddDebit or AddDeposit in the pending mode followed by RevertStatus
\* for the same tx id restores the holding exactly (pending balance,
\* finalized balance, statuses): on every holding of every cache, and for
\* the holdings a contract debited and deposited for a transfer and reverted
\* at the timeout of the transfer.
C22_RevertRestores ==
    \A c \in Contracts :
        /\ \A k \in DOMAIN cache[c] : RevertRestores(cache[c][k])
        /\ job[c] = "fired" => cache[c] = opening[c]

\* The first contract has debited two senders of an asset, deposited, saved
\* the holdings and reverted them at the timeout.
C22_Witness ==
    /\ job[FirstContract] = "fired"
    /\ \E a \in TokenAssets : Owner(a) = FirstContract /\ Len(a.senders) = 2
    /\ cache = opening

\* ------------------------------------------------------------------------
\* A settlement seen twice
\* ------------------------------------------------------------------------
\* FinalizeTx applied again to what it returned changes nothing.
FinalizeTwice(h) ==
    \A q \in 0..MaxBalance :
        FinalizeTx(FinalizeTx(h, TransferTxId, q), TransferTxId, q)
            = FinalizeTx(h, TransferTxId, q)

C25_NoJobWithoutRecord ==
    /\ [](\A c \in Contracts : c \notin pending => job[c] # "scheduled")
    /\ [][\A c \in Contracts :
            (c \in pending /\ c \notin pending') => job'[c] \in {"cancelled", "fired"}]_vars

\* All three ways out are taken: here a record was removed by a rejection of
\* another contract and the job was cancelled.
C25_Witness ==
    \E c \in Contracts :
        /\ c \notin pending
        /\ job[c] = "cancelled"
        /\ c \notin finalized
        /\ \E i \in 1..Len(log) : log[i].kind = "Rejection" /\ log[i].to = c

\* ------------------------------------------------------------------------
\* A caller changes a holding it fetched (holdings.Fetch, copyHolding)
\* ------------------------------------------------------------------------
\* The transfer state while only the cache slot is followed.
TransferIdle ==
    /\ transfer = LedgerTransfer("single", <<[index |-> 0, qty |-> 1]>>,
                                 <<[addr |-> "u3", qty |-> 1]>>)
    /\ cache = [c \in Contracts |-> [k \in Fetched(transfer) |-> NewHolding(0)]]
    /\ opening = cache
    /\ frozen = {}
    /\ moved = {}
    /\ handled = {}
    /\ result = [c \in Contracts |-> "none"]
    /\ txStore = {}
    /\ pending = {}
    /\ job = [c \in Contracts |-> "none"]
    /\ statuses = [c \in Contracts |-> {}]
    /\ finalized = {}
    /\ log = << >>
    /\ msgs = {}
    /\ first = -1

\* Handlers that run in parallel, and the transfer tx each one handles.
Handlers == {"h1", "h2"}

TxOf(p) == IF p = "h1" THEN "t1" ELSE "t2"

\* The callers of Fetch followed when the copy is looked at.
Callers == {"h1"}

\* Most HoldingStatus records allocated in one behaviour.
MaxRefs == 3

Refs == 1..MaxRefs

\* The reference of the status record a cached holding starts with.
RefOf(tx) == IF tx = "t1" THEN 1 ELSE 2

\* The holding a pointer holding stands for: balances and the status records
\* its map points to.
Deref(h, mem) ==
    [fin |-> h.fin, pend |-> h.pend, st |-> {mem[h.st[tx]] : tx \in DOMAIN h.st}]

\* The references a pointer holding keeps.
RefsOf(h) == {h.st[tx] : tx \in DOMAIN h.st}

\* The records that can still be reached from the slot sl or from a holding
\* of the callers w; the others are garbage.
Collect(mem, sl, w) ==
    LET live == RefsOf(sl[1])
                  \cup UNION {RefsOf(w[p][1]) : p \in {x \in DOMAIN w : w[x] # << >>}}
    IN [r \in (DOMAIN mem) \cap live |-> mem[r]]

\* The holding in the cache slot, as a reader of the cache sees it.
CachedHolding == Deref(slot[1], heap)

\* copyHolding: the struct is copied, a new map is made, and every entry of
\* the new map is the pointer of the old one.
copyHolding(h) == [fin |-> h.fin, pend |-> h.pend,
                   st |-> [tx \in DOMAIN h.st |-> h.st[tx]]]

InitFetch ==
    /\ TransferIdle
    /\ InvIdle
    /\ \E S \in SUBSET TxIds, b \in 0..MaxQty, q \in 1..MaxQty :
          /\ heap = [r \in {RefOf(tx) : tx \in S} |->
                        LET tx == CHOOSE x \in S : RefOf(x) = r
                        IN [tx |-> tx, code |-> "deposit", amount |-> q, settle |-> b + q]]
          /\ slot = <<[fin |-> b, pend |-> b + q * Cardinality(S),
                       st |-> [tx \in S |-> RefOf(tx)]]>>
    /\ modified = FALSE
    /\ working = [p \in Callers |-> << >>]
    /\ pc = [p \in Callers |-> "idle"]
    /\ storage = << >>
    /\ channel = << >>

\* holdings.Fetch of a holding that is in the cache.
FetchCopy(p) ==
    /\ pc[p] = "idle"
    /\ working' = [working EXCEPT ![p] = <<copyHolding(slot[1])>>]
    /\ pc' = [pc EXCEPT ![p] = "fetched"]
    /\ UNCHANGED <<transferVars, invVars, heap, slot, modified, storage, channel>>

\* The caller assigns a balance of the holding it fetched.
SetBalance(p, b) ==
    /\ pc[p] = "fetched"
    /\ working' = [working EXCEPT ![p][1].pend = b]
    /\ UNCHANGED <<transferVars, invVars, heap, slot, modified, pc, storage, channel>>

\* The caller deletes an entry of the status map of the holding it fetched.
DeleteStatus(p, tx) ==
    /\ pc[p] = "fetched"
    /\ tx \in DOMAIN working[p][1].st
    /\ working' = [working EXCEPT ![p][1].st =
                      [x \in (DOMAIN @) \ {tx} |-> @[x]]]
    /\ heap' = Collect(heap, slot, working')
    /\ UNCHANGED <<transferVars, invVars, slot, modified, pc, storage, channel>>

\* The caller puts a new status record into the status map.
PutStatus(p, tx, q) ==
    /\ pc[p] = "fetched"
    /\ tx \notin DOMAIN working[p][1].st
    /\ Refs \ DOMAIN heap # {}
    /\ LET r == CHOOSE x \in Refs \ DOMAIN heap : \A y \in Refs \ DOMAIN heap : x <= y
       IN /\ heap' = [x \in (DOMAIN heap) \cup {r} |->
                         IF x = r THEN [tx |-> tx, code |-> "debit", amount |-> q,
                                        settle |-> 0]
                         ELSE heap[x]]
          /\ working' = [working EXCEPT ![p][1].st =
                            [x \in (DOMAIN @) \cup {tx} |-> IF x = tx THEN r ELSE @[x]]]
    /\ UNCHANGED <<transferVars, invVars, slot, modified, pc, storage, channel>>

\* The caller assigns a field of a status record of the holding it fetched.
SetStatusField(p, tx, q) ==
    /\ pc[p] = "fetched"
    /\ tx \in DOMAIN working[p][1].st
    /\ heap' = [heap EXCEPT ![working[p][1].st[tx]].amount = q]
    /\ UNCHANGED <<transferVars, invVars, slot, modified, working, pc, storage, channel>>

\* holdings.Save of the holding the caller worked on: the slot takes the
\* caller's pointer.
SaveCopy(p) ==
    /\ pc[p] = "fetched"
    /\ slot' = <<working[p][1]>>
    /\ modified' = TRUE
    /\ working' = [working EXCEPT ![p] = << >>]
    /\ pc' = [pc EXCEPT ![p] = "idle"]
    /\ heap' = Collect(heap, slot', working')
    /\ UNCHANGED <<transferVars, invVars, storage, channel>>

\* The caller returns without Save.
ReturnCopy(p) ==
    /\ pc[p] = "fetched"
    /\ working' = [working EXCEPT ![p] = << >>]
    /\ pc' = [pc EXCEPT ![p] = "idle"]
    /\ heap' = Collect(heap, slot, working')
    /\ UNCHANGED <<transferVars, invVars, slot, modified, storage, channel>>

NextFetch ==
    \/ \E p \in Callers : FetchCopy(p)
    \/ \E p \in Callers, b \in 0..MaxQty : SetBalance(p, b)
    \/ \E p \in Callers, tx \in TxIds : DeleteStatus(p, tx)
    \/ \E p \in Callers, tx \in TxIds, q \in 1..MaxQty : PutStatus(p, tx, q)
    \/ \E p \in Callers, tx \in TxIds, q \in 1..MaxQty : SetStatusField(p, tx, q)
    \/ \E p \in Callers : SaveCopy(p)
    \/ \E p \in Callers : ReturnCopy(p)

SpecFetch == InitFetch /\ [][NextFetch]_vars

\* C26: whatever a caller does to a holding it fetched (balances, status
\* map, fields of a status record), the cached holding stays as it is until
\* a caller passes a holding to Save.
C26_FetchedCopyIsolated ==
    [][(\E p \in Callers : SaveCopy(p)) \/ CachedHolding' = CachedHolding]_vars

\* The parts of the copy that are the caller's own: changes of the balances
\* and of the status map never reach the cached holding.
C26_OwnFieldsIsolated ==
    [][(\E p \in Callers, b \in 0..MaxQty : SetBalance(p, b))
          \/ (\E p \in Callers, tx \in TxIds : DeleteStatus(p, tx))
          \/ (\E p \in Callers, tx \in TxIds, q \in 1..MaxQty : PutStatus(p, tx, q))
       => CachedHolding' = CachedHolding]_vars

\* ------------------------------------------------------------------------
\* The bytes of a holding (serializeHolding, deserializeHolding)
\* ------------------------------------------------------------------------
\* Values written before the statuses: version, address, pending balance,
\* finalized balance, number of statuses.
HeaderWidth == 5

\* Values written for one status: code, amount, tx id, settle quantity.
StatusWidth == 4

\* serializeHoldingStatus
serializeHoldingStatus(x) == <<x.code, x.amount, x.tx, x.settle>>

RECURSIVE serializeStatuses(_)
serializeStatuses(q) ==
    IF q = << >> THEN << >>
    ELSE serializeHoldingStatus(Head(q)) \o serializeStatuses(Tail(q))

\* The orders in which a range over the status map can yield its entries.
Orders(S) ==
    {q \in [1..Cardinality(S) -> S] :
        \A i, j \in 1..Cardinality(S) : q[i] = q[j] => i = j}

\* serializeHolding when the range over the status map yields order q.
serializeHolding(h, q) ==
    <<0, HeldKey[2], h.pend, h.fin, Len(q)>> \o serializeStatuses(q)

\* The bytes serializeHolding can return for h.
Serializations(h) == {serializeHolding(h, q) : q \in Orders(h.st)}

\* deserializeHoldingStatus of the i-th status in b, counted from 0.
deserializeHoldingStatus(b, i) ==
    [tx     |-> b[HeaderWidth + StatusWidth * i + 3],
     code   |-> b[HeaderWidth + StatusWidth * i + 1],
     amount |-> b[HeaderWidth + StatusWidth * i + 2],
     settle |-> b[HeaderWidth + StatusWidth * i + 4]]

\* deserializeHolding: the statuses are put into a map by tx id, a later
\* one of the same tx id replaces an earlier one.
deserializeHolding(b) ==
    [fin  |-> b[4],
     pend |-> b[3],
     st   |-> {deserializeHoldingStatus(b, i) :
                 i \in {k \in 0..(b[HeaderWidth] - 1) :
                          \A j \in (k + 1)..(b[HeaderWidth] - 1) :
                              deserializeHoldingStatus(b, j).tx
                                  # deserializeHoldingStatus(b, k).tx}}]

\* ------------------------------------------------------------------------
\* Handlers and the writer worker on one cache slot
\* ------------------------------------------------------------------------
\* The CacheItem of the slot.
CacheItem == HeldKey

\* Capacity of the CacheChannel.
MaxChannel == 2

\* Largest quantity a handler deposits, and largest pending balance followed.
MaxDeposit == 1

MaxPending == 2

InitCache ==
    /\ TransferIdle
    /\ InvIdle
    /\ heap = << >>
    /\ slot = << >>
    /\ modified = FALSE
    /\ \E b \in 0..MaxDeposit : storage \in Serializations(NewHolding(b))
    /\ working = [p \in Handlers |-> << >>]
    /\ pc = [p \in Handlers \cup {"writer"} |-> IF p = "writer" THEN "running" ELSE "idle"]
    /\ channel = << >>

\* holdings.Fetch: a copy of the cached holding; a holding that is not in
\* the cache is read from storage and put into the cache first.
HandlerFetch(p) ==
    /\ pc[p] = "idle"
    /\ slot' = IF slot # << >> THEN slot ELSE <<deserializeHolding(storage)>>
    /\ working' = [working EXCEPT ![p] = <<[h |-> slot'[1], op |-> "none", qty |-> 0]>>]
    /\ pc' = [pc EXCEPT ![p] = "fetched"]
    /\ UNCHANGED <<transferVars, invVars, heap, modified, storage, channel>>

\* addSettlementData of the handler's transfer tx deposits qty.
HandlerDeposit(p, qty) ==
    /\ pc[p] = "fetched"
    /\ AddDeposit(working[p][1].h, TxOf(p), qty, FALSE).err = ""
    /\ working[p][1].h.pend + qty <= MaxPending
    /\ working' = [working EXCEPT ![p] =
                      <<[h |-> AddDeposit(working[p][1].h, TxOf(p), qty, FALSE).h,
                         op |-> "deposit", qty |-> qty]>>]
    /\ pc' = [pc EXCEPT ![p] = "changed"]
    /\ UNCHANGED <<transferVars, invVars, heap, slot, modified, storage, channel>>

\* SettlementResponse of the handler's transfer tx finalizes its status.
HandlerFinalize(p) ==
    /\ pc[p] = "fetched"
    /\ \E x \in working[p][1].h.st :
          /\ x.tx = TxOf(p)
          /\ working' = [working EXCEPT ![p] =
                            <<[h |-> FinalizeTx(working[p][1].h, TxOf(p), x.settle),
                               op |-> "finalize", qty |-> x.settle]>>]
    /\ pc' = [pc EXCEPT ![p] = "changed"]
    /\ UNCHANGED <<transferVars, invVars, heap, slot, modified, storage, channel>>

\* holdings.Save: the slot takes the handler's holding and is marked.
HandlerSave(p) ==
    /\ pc[p] = "changed"
    /\ slot' = <<working[p][1].h>>
    /\ modified' = TRUE
    /\ pc' = [pc EXCEPT ![p] = "saved"]
    /\ UNCHANGED <<transferVars, invVars, heap, working, storage, channel>>

\* saveHoldings puts the CacheItem of the Save into the channel.
HandlerAdd(p) ==
    /\ pc[p] = "saved"
    /\ Len(channel) < MaxChannel
    /\ channel' = Append(channel, CacheItem)
    /\ pc' = [pc EXCEPT ![p] = "done"]
    /\ UNCHANGED <<transferVars, invVars, heap, slot, modified, working, storage>>

\* The handler has returned; the next tx of the same transfer is handled.
HandlerReturn(p) ==
    /\ pc[p] = "done"
    /\ working' = [working EXCEPT ![p] = << >>]
    /\ pc' = [pc EXCEPT ![p] = "idle"]
    /\ UNCHANGED <<transferVars, invVars, heap, slot, modified, storage, channel>>

\* Faulty variant: the flag is cleared and nothing is written.
WriteCacheUpdateNoWrite ==
    /\ modified' = FALSE
    /\ UNCHANGED storage

\* WriteCacheUpdate and the loop body of WriteCache, storage accepting the
\* write: a modified slot is serialized, written and marked clean.
WriteCacheUpdate ==
    IF slot = << >> \/ ~modified
    THEN UNCHANGED <<storage, modified>>
    ELSE /\ storage' \in Serializations(slot[1])
         /\ modified' = FALSE

\* ProcessCacheItems takes the next CacheItem and writes it.
ProcessCacheItems ==
    /\ pc["writer"] = "running"
    /\ channel # << >>
    /\ channel' = Tail(channel)
    /\ WriteCacheUpdate
    /\ UNCHANGED <<transferVars, invVars, heap, slot, working, pc>>

\* ProcessCacheItems when storage refuses the write: it returns the error.
ProcessCacheItemsFails ==
    /\ pc["writer"] = "running"
    /\ channel # << >>
    /\ modified
    /\ channel' = Tail(channel)
    /\ pc' = [pc EXCEPT !["writer"] = "failed"]
    /\ UNCHANGED <<transferVars, invVars, heap, slot, modified, working, storage>>

\* WriteCache returns without error.
WriteCache ==
    /\ slot # << >>
    /\ WriteCacheUpdate
    /\ UNCHANGED <<transferVars, invVars, heap, slot, working, pc, channel>>

NextCache ==
    \/ \E p \in Handlers : HandlerFetch(p)
    \/ \E p \in Handlers, qty \in 1..MaxDeposit : HandlerDeposit(p, qty)
    \/ \E p \in Handlers : HandlerFinalize(p)
    \/ \E p \in Handlers : HandlerSave(p)
    \/ \E p \in Handlers : HandlerAdd(p)
    \/ \E p \in Handlers : HandlerReturn(p)
    \/ ProcessCacheItems
    \/ ProcessCacheItemsFails
    \/ WriteCache

SpecCache == InitCache /\ [][NextCache]_vars

\* The cached holding shows what handler p did to the holding.
Reflects(p) ==
    /\ working[p][1].op = "deposit"
          => \E x \in slot[1].st : x.tx = TxOf(p) /\ x.amount = working[p][1].qty
    /\ working[p][1].op = "finalize" => ~HasTx(slot[1], TxOf(p))

\* C27: when two handlers in parallel have each fetched, changed and saved
\* the holding, the cached holding shows both changes.
C27_NoLostUpdate ==
    (\A p \in Handlers : pc[p] \in {"saved", "done"})
        => \A p \in Handlers : Reflects(p)

\* Every Save has its CacheItem in the channel or behind it, and the writer
\* worker has taken every CacheItem.
AllItemsProcessed ==
    /\ pc["writer"] = "running"
    /\ channel = << >>
    /\ \A p \in Handlers : pc[p] # "saved"

\* The slot is clean and storage holds a serialization of its holding.
SlotPersisted ==
    slot # << >>
        => /\ ~modified
           /\ storage \in Serializations(slot[1])
           /\ deserializeHolding(storage) = slot[1]

\* C28: once the writer worker has processed the CacheItem of every Save,
\* and after every WriteCache that returned without error, the slot has
\* modified = false and the bytes in storage are a serialization of the
\* holding in the slot.
C28_SavedIsPersisted ==
    /\ [](AllItemsProcessed => SlotPersisted)
    /\ [][WriteCache => SlotPersisted']_vars

\* Both handlers have saved, the holding has two statuses, and the writer
\* has taken both CacheItems.
C28_Witness ==
    /\ AllItemsProcessed
    /\ \A p \in Handlers : pc[p] = "done"
    /\ slot # << >>
    /\ Cardinality(slot[1].st) = 2

\* ------------------------------------------------------------------------
\* A holding written, read back and written again
\* ------------------------------------------------------------------------
\* The status records a holding can carry for tx.
StatusRecords(tx) ==
    {[tx |-> tx, code |-> c, amount |-> a, settle |-> a] :
        c \in {"debit", "deposit"}, a \in 1..MaxDeposit}

\* The holdings serialized: any balances, at most one status per tx id.
SerialHoldings ==
    {[fin |-> f, pend |-> q, st |-> S] :
        f \in 0..MaxDeposit, q \in 0..MaxDeposit,
        S \in {T \in SUBSET UNION {StatusRecords(tx) : tx \in TxIds} :
                  \A x, y \in T : x.tx = y.tx => x = y}}

InitSerial ==
    /\ TransferIdle
    /\ InvIdle
    /\ heap = << >>
    /\ slot \in {<<h>> : h \in SerialHoldings}
    /\ modified = FALSE
    /\ working = << >>
    /\ pc = "holding"
    /\ storage = << >>
    /\ channel = << >>

\* write: serializeHolding of the holding.
SerializeFirst ==
    /\ pc = "holding"
    /\ storage' \in Serializations(slot[1])
    /\ pc' = "written"
    /\ UNCHANGED <<transferVars, invVars, heap, slot, modified, working, channel>>

\* Fetch of a holding that is not in the cache: deserializeHolding.
Deserialize ==
    /\ pc = "written"
    /\ working' = <<deserializeHolding(storage)>>
    /\ pc' = "read"
    /\ UNCHANGED <<transferVars, invVars, heap, slot, modified, storage, channel>>

\* write: serializeHolding of the holding that was read.
SerializeAgain ==
    /\ pc = "read"
    /\ storage' \in Serializations(working[1])
    /\ pc' = "rewritten"
    /\ UNCHANGED <<transferVars, invVars, heap, slot, modified, working, channel>>

NextSerial == SerializeFirst \/ Deserialize \/ SerializeAgain

SpecSerial == InitSerial /\ [][NextSerial]_vars

\* C29: a holding, one with two or more statuses included, that is
\* serialized, deserialized and serialized again gives the bytes of the
\* first serialization.
C29_SameBytesAgain ==
    [][SerializeAgain => storage' = storage]_vars

\* What does hold: the holding read back is the holding written, and a
\* holding with at most one status gives the same bytes again.
C29_SameHoldingAgain ==
    /\ [](pc \in {"read", "rewritten"} => working[1] = slot[1])
    /\ [][SerializeAgain /\ Cardinality(slot[1].st) <= 1 => storage' = storage]_vars

\* ------------------------------------------------------------------------
\* Inventory announcements (InvHandler, TxTracker, MemPool)
\* ------------------------------------------------------------------------
Peers == {"p1", "p2"}

Hashes == {"H1", "H2"}

\* Longest inv list, items a get-data message takes, and inv messages in
\* one behaviour.
MaxInvList == 2

MaxInvPerMsg == 1

MaxAnnounce == 2

\* The tx hashes of an inv message, in its order.
InvLists == UNION {[1..n -> Hashes] : n \in 1..MaxInvList}

\* Faulty variant: every caller without the body is told to request.
AddRequestAlways(m, h) ==
    IF m[h] = "received" THEN [have |-> TRUE, request |-> FALSE, pool |-> m]
    ELSE [have |-> FALSE, request |-> TRUE, pool |-> [m EXCEPT ![h] = "requested"]]

\* MemPool.AddRequest: (already have, should request) and the pool after it.
AddRequest(m, h) ==
    IF m[h] = "received" THEN [have |-> TRUE, request |-> FALSE, pool |-> m]
    ELSE IF m[h] \in {"none", "expired"}
         THEN [have |-> FALSE, request |-> TRUE, pool |-> [m EXCEPT ![h] = "requested"]]
         ELSE [have |-> FALSE, request |-> FALSE, pool |-> m]

\* MsgGetData.AddInvVect: a full message refuses the item.
AddInvVect(msg, h) ==
    IF Len(msg) + 1 > MaxInvPerMsg THEN [err |-> TRUE, msg |-> msg]
    ELSE [err |-> FALSE, msg |-> Append(msg, h)]

\* Faulty variant: a full message is dropped, not appended to the response.
addToRequestDropsFull(req, resp, h) ==
    IF ~AddInvVect(req, h).err
    THEN [err |-> FALSE, request |-> AddInvVect(req, h).msg, response |-> resp]
    ELSE [err |-> AddInvVect(<< >>, h).err, request |-> AddInvVect(<< >>, h).msg,
          response |-> resp]

\* The request branch of Handle and Check: the item goes into the current
\* message; a full message is appended to the response and a new one begun.
addToRequest(req, resp, h) ==
    IF ~AddInvVect(req, h).err
    THEN [err |-> FALSE, request |-> AddInvVect(req, h).msg, response |-> resp]
    ELSE [err |-> AddInvVect(<< >>, h).err, request |-> AddInvVect(<< >>, h).msg,
          response |-> Append(resp, req)]

\* The messages a handler returns: the response and the message being
\* filled when it is not empty, each sent to peer p.
Returned(p, resp, req) ==
    [i \in 1..(Len(resp) + (IF req = << >> THEN 0 ELSE 1)) |->
        [to |-> p, list |-> IF i <= Len(resp) THEN resp[i] ELSE req]]

InitInv ==
    /\ TransferIdle
    /\ heap = << >>
    /\ slot = << >>
    /\ modified = FALSE
    /\ working = << >>
    /\ pc = << >>
    /\ storage = << >>
    /\ channel = << >>
    /\ ready = FALSE
    /\ memPool = [h \in Hashes |-> "none"]
    /\ tracker = [p \in Peers |-> {}]
    /\ inv = [p \in Peers |-> << >>]
    /\ getData = << >>
    /\ left = MaxAnnounce

\* The node has caught up with the chain.
BecomeReady ==
    /\ ~ready
    /\ ready' = TRUE
    /\ UNCHANGED <<transferVars, nodeVars, memPool, tracker, inv, getData, left>>

\* InvHandler.Handle before the node is in sync: the inv is ignored.
HandleNotReady(p, list) ==
    /\ ~ready
    /\ left > 0
    /\ inv[p] = << >>
    /\ left' = left - 1
    /\ UNCHANGED <<transferVars, nodeVars, ready, memPool, tracker, inv, getData>>

\* InvHandler.Handle of an inv message of peer p begins.
HandleStart(p, list) ==
    /\ ready
    /\ left > 0
    /\ inv[p] = << >>
    /\ left' = left - 1
    /\ inv' = [inv EXCEPT ![p] = <<[items |-> list, answer |-> "", request |-> << >>,
                                    response |-> << >>]>>]
    /\ UNCHANGED <<transferVars, nodeVars, ready, memPool, tracker, getData>>

\* The answer of AddRequest as the handler branches on it.
Answer(a) == IF a.have THEN "have" ELSE IF a.request THEN "request" ELSE "wait"

\* Handle asks the MemPool about the next item.
HandleAddRequest(p) ==
    /\ inv[p] # << >>
    /\ inv[p][1].items # << >>
    /\ inv[p][1].answer = ""
    /\ memPool' = AddRequest(memPool, Head(inv[p][1].items)).pool
    /\ inv' = [inv EXCEPT ![p][1].answer =
                  Answer(AddRequest(memPool, Head(inv[p][1].items)))]
    /\ UNCHANGED <<transferVars, nodeVars, ready, tracker, getData, left>>

\* The handler of p ends with an error; what it had returned is sent.
HandleFails(p, r) ==
    /\ inv' = [inv EXCEPT ![p] = << >>]
    /\ getData' = getData \o Returned(p, r.response, << >>)
    /\ UNCHANGED tracker

\* The item was put into the request of p's handler.
HandleRequested(p, r) ==
    IF r.err THEN HandleFails(p, r)
    ELSE /\ inv' = [inv EXCEPT ![p] = <<[items |-> Tail(inv[p][1].items), answer |-> "",
                                         request |-> r.request,
                                         response |-> r.response]>>]
         /\ UNCHANGED <<tracker, getData>>

\* Handle acts on the answer: nothing, the item is requested, or
\* TxTracker.Add of the hash.
HandleAnswer(p) ==
    /\ inv[p] # << >>
    /\ inv[p][1].answer # ""
    /\ IF inv[p][1].answer = "request"
       THEN HandleRequested(p, addToRequest(inv[p][1].request, inv[p][1].response,
                                            Head(inv[p][1].items)))
       ELSE /\ inv' = [inv EXCEPT ![p][1].items = Tail(@), ![p][1].answer = ""]
            /\ tracker' = IF inv[p][1].answer = "wait"
                          THEN [tracker EXCEPT ![p] = @ \cup {Head(inv[p][1].items)}]
                          ELSE tracker
            /\ UNCHANGED getData
    /\ UNCHANGED <<transferVars, nodeVars, ready, memPool, left>>

\* Handle returns its response.
HandleReturn(p) ==
    /\ inv[p] # << >>
    /\ inv[p][1].items = << >>
    /\ getData' = getData \o Returned(p, inv[p][1].response, inv[p][1].request)
    /\ inv' = [inv EXCEPT ![p] = << >>]
    /\ UNCHANGED <<transferVars, nodeVars, ready, memPool, tracker, left>>

RECURSIVE checkItems(_, _, _, _, _)
RECURSIVE checkAnswered(_, _, _, _, _)
RECURSIVE checkRequested(_, _, _, _)

\* Faulty variant: Check asks the MemPool about no txid.
checkItemsNone(q, m, tr, req, resp) ==
    [pool |-> m, txids |-> tr, request |-> req, response |-> resp, err |-> FALSE]

\* The loop of TxTracker.Check over the txids in order q.
checkItems(q, m, tr, req, resp) ==
    IF q = << >>
    THEN [pool |-> m, txids |-> tr, request |-> req, response |-> resp, err |-> FALSE]
    ELSE checkAnswered(q, AddRequest(m, Head(q)), tr, req, resp)

\* Faulty variant: a txid whose body is present stays in the tracker.
checkAnsweredKeepsHave(q, a, tr, req, resp) ==
    IF a.have THEN checkItems(Tail(q), a.pool, tr, req, resp)
    ELSE IF a.request THEN checkRequested(q, a.pool, tr, addToRequest(req, resp, Head(q)))
    ELSE checkItems(Tail(q), a.pool, tr, req, resp)

checkAnswered(q, a, tr, req, resp) ==
    IF a.have THEN checkItems(Tail(q), a.pool, tr \ {Head(q)}, req, resp)
    ELSE IF a.request THEN checkRequested(q, a.pool, tr, addToRequest(req, resp, Head(q)))
    ELSE checkItems(Tail(q), a.pool, tr, req, resp)

\* Faulty variant: a requested txid stays in the tracker.
checkRequestedKeeps(q, m, tr, r) ==
    IF r.err
    THEN [pool |-> m, txids |-> tr, request |-> << >>, response |-> r.response,
          err |-> TRUE]
    ELSE checkItems(Tail(q), m, tr, r.request, r.response)

checkRequested(q, m, tr, r) ==
    IF r.err
    THEN [pool |-> m, txids |-> tr, request |-> << >>, response |-> r.response,
          err |-> TRUE]
    ELSE checkItems(Tail(q), m, tr \ {Head(q)}, r.request, r.response)

\* Check of p's tracker returns r.
CheckReturns(p, r) ==
    /\ memPool' = r.pool
    /\ tracker' = [tracker EXCEPT ![p] = r.txids]
    /\ getData' = getData \o Returned(p, r.response, r.request)

\* TxTracker.Check, under the tracker's mutex; the range over the txids can
\* take any order.
Check(p) ==
    /\ tracker[p] # {}
    /\ \E q \in Orders(tracker[p]) :
          CheckReturns(p, checkItems(q, memPool, tracker[p], << >>, << >>))
    /\ UNCHANGED <<transferVars, nodeVars, ready, inv, left>>

\* A peer that was asked delivers the tx.
Deliver(h) ==
    /\ memPool[h] \in {"requested", "expired"}
    /\ memPool' = [memPool EXCEPT ![h] = "received"]
    /\ UNCHANGED <<transferVars, nodeVars, ready, tracker, inv, getData, left>>

\* TxTracker.Remove of a tx that was received.
Remove(p, h) ==
    /\ memPool[h] = "received"
    /\ h \in tracker[p]
    /\ tracker' = [tracker EXCEPT ![p] = @ \ {h}]
    /\ UNCHANGED <<transferVars, nodeVars, ready, memPool, inv, getData, left>>

\* The request of h is older than the MemPool waits for a delivery.
Expire(h) ==
    /\ memPool[h] = "requested"
    /\ memPool' = [memPool EXCEPT ![h] = "expired"]
    /\ UNCHANGED <<transferVars, nodeVars, ready, tracker, inv, getData, left>>

NextInv ==
    \/ BecomeReady
    \/ \E p \in Peers, list \in InvLists : HandleNotReady(p, list)
    \/ \E p \in Peers, list \in InvLists : HandleStart(p, list)
    \/ \E p \in Peers : HandleAddRequest(p)
    \/ \E p \in Peers : HandleAnswer(p)
    \/ \E p \in Peers : HandleReturn(p)
    \/ \E p \in Peers : Check(p)
    \/ \E h \in Hashes : Deliver(h)
    \/ \E p \in Peers, h \in Hashes : Remove(p, h)
    \/ \E h \in Hashes : Expire(h)

SpecInv == InitInv /\ [][NextInv]_vars

\* The hashes of a sequence of get-data lists, in order.
RECURSIVE Flat(_)
Flat(lists) == IF lists = << >> THEN << >> ELSE Head(lists) \o Flat(Tail(lists))

\* The hashes the handler of p has put into get-data messages so far.
Requested(p) == Flat(inv[p][1].response) \o inv[p][1].request

\* The get-data messages emitted in this step.
NewGetData(old, new) == [i \in 1..(Len(new) - Len(old)) |-> new[Len(old) + i]]

\* What Handle does with the item it has an answer for.
ItemOutcome(p) ==
    /\ inv[p][1].answer = "have"
          => tracker' = tracker /\ Requested(p)' = Requested(p)
    /\ inv[p][1].answer = "request"
          => /\ tracker' = tracker
             /\ Requested(p)' = Append(Requested(p), Head(inv[p][1].items))
    /\ inv[p][1].answer = "wait"
          => /\ tracker' = [tracker EXCEPT ![p] = @ \cup {Head(inv[p][1].items)}]
             /\ Requested(p)' = Requested(p)

\* C31: for every hash of an inv handled while the node is in sync exactly
\* one thing happens, by the answer of AddRequest: nothing (body present),
\* the hash is put once into a get-data message that is emitted (request),
\* or the hash is added to the peer's tracker (wait).
C31_InvItemOutcome ==
    [][\A p \in Peers :
          /\ HandleAnswer(p) => ItemOutcome(p)
          /\ HandleReturn(p)
                => /\ Flat([i \in 1..Len(NewGetData(getData, getData')) |->
                               NewGetData(getData, getData')[i].list]) = Requested(p)
                   /\ \A i \in 1..Len(NewGetData(getData, getData')) :
                         /\ NewGetData(getData, getData')[i].to = p
                         /\ NewGetData(getData, getData')[i].list # << >>]_vars

\* One Handle has returned two get-data messages (the first was full), and
\* a hash another peer is asked for is tracked.
C31_Witness ==
    /\ \E i \in 1..(Len(getData) - 1) :
          /\ getData[i].to = getData[i + 1].to
          /\ getData[i].list # getData[i + 1].list
    /\ \E p \in Peers : tracker[p] # {}
    /\ \A p \in Peers : inv[p] = << >>

\* How often h occurs in the get-data messages emitted in this step.
TimesRequested(h, old, new) ==
    Cardinality({<<i, j>> \in (1..Len(NewGetData(old, new))) \X (1..MaxInvPerMsg) :
                    /\ j <= Len(NewGetData(old, new)[i].list)
                    /\ NewGetData(old, new)[i].list[j] = h})

\* C32: Check asks the MemPool about every tracked hash: a hash whose body
\* is present leaves the tracker without a request, a hash with answer
\* request-now is put into exactly one emitted get-data message and leaves
\* the tracker, every other hash stays; afterwards the tracker holds exactly
\* the hashes with answer wait.
C32_CheckSweepsTracker ==
    [][\A p \in Peers :
          Check(p)
             => /\ tracker'[p] = {h \in tracker[p] : memPool[h] = "requested"}
                /\ \A h \in Hashes :
                      TimesRequested(h, getData, getData')
                         = IF h \in tracker[p] /\ memPool[h] \in {"none", "expired"}
                           THEN 1 ELSE 0
                /\ \A i \in 1..Len(NewGetData(getData, getData')) :
                      /\ NewGetData(getData, getData')[i].to = p
                      /\ NewGetData(getData, getData')[i].list # << >>]_vars

\* One Check has re-requested two hashes from its peer, in two messages,
\* after the other peer had been asked for both.
C32_Witness ==
    \E p \in Peers :
        /\ Len(getData) = 4
        /\ getData[1].to # p /\ getData[2].to # p
        /\ getData[3].to = p /\ getData[4].to = p
        /\ inv[p] = << >>
        /\ tracker[p] = {}
        /\ \A h \in Hashes : memPool[h] = "requested"

\* ------------------------------------------------------------------------
\* The peer that was asked delivers before its request times out
\* ------------------------------------------------------------------------
NextDelivered ==
    \/ BecomeReady
    \/ \E p \in Peers, list \in InvLists : HandleNotReady(p, list)
    \/ \E p \in Peers, list \in InvLists : HandleStart(p, list)
    \/ \E p \in Peers : HandleAddRequest(p)
    \/ \E p \in Peers : HandleAnswer(p)
    \/ \E p \in Peers : HandleReturn(p)
    \/ \E p \in Peers : Check(p)
    \/ \E h \in Hashes : Deliver(h)
    \/ \E p \in Peers, h \in Hashes : Remove(p, h)

\* Check runs periodically, a handler that began runs to its end, and the
\* peer that was asked delivers.
SpecDelivered ==
    /\ InitInv
    /\ [][NextDelivered]_vars
    /\ \A p \in Peers : WF_vars(Check(p))
    /\ \A p \in Peers : WF_vars(HandleAddRequest(p) \/ HandleAnswer(p) \/ HandleReturn(p))
    /\ \A h \in Hashes : WF_vars(Deliver(h))

\* How often h occurs in the get-data messages emitted so far.
TotalRequested(h) == TimesRequested(h, << >>, getData)

\* C33: when the peer that was asked for H delivers it before the request
\* times out, then under every interleaving of another peer's inv handling
\* (AddRequest, then TxTracker.Add), the delivery (TxTracker.Remove) and
\* Check, H is eventually absent from that peer's tracker and no second
\* get-data for H is ever emitted.
C33_DeliveredClearsTracker ==
    /\ [](\A h \in Hashes : TotalRequested(h) <= 1)
    /\ \A p \in Peers, h \in Hashes : (h \in tracker[p]) ~> (h \notin tracker[p])

\* H was delivered and removed before the second peer's handler, which had
\* been answered wait, added it to its tracker.
C33_Witness ==
    \E p \in Peers, h \in Hashes :
        /\ memPool[h] = "received"
        /\ h \in tracker[p]
        /\ inv[p] = << >>
        /\ TotalRequested(h) = 1
        /\ \A i \in 1..Len(getData) : getData[i].to # p

\* ------------------------------------------------------------------------
\* Requests that are never answered
\* ------------------------------------------------------------------------
\* Check runs periodically, a request that is not answered times out, and a
\* handler that began runs to its end.  No peer is obliged to deliver.
SpecInvFair ==
    /\ SpecInv
    /\ \A p \in Peers : WF_vars(Check(p))
    /\ \A p \in Peers : WF_vars(HandleAddRequest(p) \/ HandleAnswer(p) \/ HandleReturn(p))
    /\ \A h \in Hashes : WF_vars(Expire(h))

\* The get-data messages emitted in this step ask p for h.
AskedNow(p, h) ==
    \E i \in 1..Len(NewGetData(getData, getData')) :
        /\ NewGetData(getData, getData')[i].to = p
        /\ \E j \in 1..Len(NewGetData(getData, getData')[i].list) :
              NewGetData(getData, getData')[i].list[j] = h

C35_OneResponseNoLoop ==
    [][\A c \in Contracts :
         /\ (TransferRequest(c) /\ result'[c] # "waiting") => Len(log') = Len(log) + 1
         /\ SettlementResponse(c) => (log' = log /\ msgs' = msgs)]_vars

\* ------------------------------------------------------------------------
\* Bitcoin entries that assign exactly what was sent
\* ------------------------------------------------------------------------
BitcoinAssets == {transfer.assets[k] : k \in {x \in 1..Len(transfer.assets) :
                                                IsBitcoin(transfer.assets[x])}}

\* Every bitcoin entry sends from inputs of the transfer less than each input
\* holds and gives its receivers exactly what its senders send; the whole is
\* within the first contract's output, and some bitcoin is received.
ExactBitcoin ==
    /\ \A a \in BitcoinAssets :
          /\ \A j \in 1..Len(a.senders) :
                /\ a.senders[j].index < Len(transfer.inputs)
                /\ a.senders[j].qty < At(transfer.inputs, a.senders[j].index).value
          /\ TotalQty(a.receivers) = TotalQty(a.senders)
    /\ BitcoinReceived(1) > 0
    /\ ~Underfunded

\* The bitcoin quantity the bitcoin entries give to addr.
BitcoinGivenTo(addr) ==
    LET Given[k \in 0..Len(transfer.assets)] ==
            IF k = 0 THEN 0
            ELSE Given[k - 1]
                 + (IF IsBitcoin(transfer.assets[k])
                    THEN TotalQty(SelectSeq(transfer.assets[k].receivers,
                                            LAMBDA r : r.addr = addr))
                    ELSE 0)
    IN Given[Len(transfer.assets)]

\* C36: a transfer whose bitcoin entries give their receivers exactly what
\* their senders send (every sender quantity below the value of its input,
\* the total within the first contract's output value) passes the bitcoin
\* settlement composition of the first contract, and the settlement output of
\* every bitcoin receiver holds its bitcoin quantity once (on top of at most
\* the dust amount).
C36_ExactBitcoinSettles ==
    LET f == firstContractOutputIndex(transfer.assets, Len(transfer.outputs))
        tx == buildSettlementTx(transfer, At(transfer.outputs, f).value)
        btc == addBitcoinSettlements(transfer, tx.outs)
    IN (f # NoContract /\ FirstContract \in handled /\ ExactBitcoin /\ ~tx.err)
          => /\ ~btc.err
             /\ \A i \in 1..Len(btc.outs) :
                   BitcoinGivenTo(btc.outs[i].addr) > 0
                      => btc.outs[i].value <= DustLimit + BitcoinGivenTo(btc.outs[i].addr)

\* ------------------------------------------------------------------------
\* A timeout that races with the cancellation of its job
\* ------------------------------------------------------------------------
\* The scheduler takes the job off its list at the deadline and starts the
\* handler; a CancelJob that comes now finds no job.
TimeoutDue(c) ==
    /\ job[c] = "scheduled"
    /\ job' = [job EXCEPT ![c] = "running"]
    /\ UNCHANGED <<nodeVars, invVars, transfer, opening, moved, frozen, handled, result,
                   txStore, pending, statuses, cache, finalized, log, msgs, first>>

NextTimeout ==
    \/ \E c \in Contracts : TransferRequest(c)
    \/ \E c \in Contracts : TimeoutDue(c)
    \/ \E c \in Contracts : TransferTimeout(c)
    \/ \E i \in msgs : processSettlementRequest(i)
    \/ \E i \in msgs : processSigRequestSettlement(i)
    \/ \E i \in msgs : ProcessRejection(i)
    \/ \E c \in Contracts : SettlementResponse(c)

SpecTimeout == InitLedger /\ [][NextTimeout]_vars

TimeoutRejections(c) == {i \in UserRejections(c) : log[i].code = Timeout}

\* C37: no contract both broadcasts the settlement tx of the transfer and
\* emits a timeout rejection, and a TransferTimeout that runs when the
\* pending-transfer record is already gone (removed by the settlement
\* broadcast or by a rejection, the cancellation of the job having come too
\* late) emits no rejection and reverts no holding status.
C37_NoTimeoutAfterRemoval ==
    /\ [](\A c \in Contracts :
            ~(/\ \E i \in Emitted("Settlement") : log[i].by = c
              /\ TimeoutRejections(c) # {}))
    /\ [][\A c \in Contracts :
            (c \notin pending /\ TransferTimeout(c))
                => (log' = log /\ cache' = cache /\ statuses' = statuses)]_vars

\* ------------------------------------------------------------------------
\* Two settlements observed in either order
\* ------------------------------------------------------------------------
\* The pending status of tx on h.
StatusOf(h, tx) == CHOOSE x \in h.st : x.tx = tx /\ x.code \in {"debit", "deposit"}

\* What the pending status x adds to the balance.
Net(x) == IF x.code = "deposit" THEN x.amount ELSE 0 - x.amount

\* The settlement of tx is observed, then that of other.
ObservedInOrder(h, tx, other) ==
    FinalizeTx(FinalizeTx(h, tx, StatusOf(h, tx).settle), other, StatusOf(h, other).settle)

\* C38: when two transfers both hold a pending status on the same holding,
\* observing their settlements in either order gives the same holding, and
\* its finalized balance is the finalized balance before the two settlements
\* plus the deposits and minus the debits of the two transfers.
C38_SettlementOrderIrrelevant ==
    (\A tx \in TxIds : HasTx(Held, tx))
        => /\ ObservedInOrder(Held, "t1", "t2") = ObservedInOrder(Held, "t2", "t1")
           /\ ObservedInOrder(Held, "t1", "t2").fin
                 = Held.fin + Net(StatusOf(Held, "t1")) + Net(StatusOf(Held, "t2"))

\* ------------------------------------------------------------------------
\* After a multi-contract transfer has ended without a settlement
\* ------------------------------------------------------------------------
\* The first contract had sent the settlement request of the transfer and
\* has told the users, by a rejection with refunds, that the transfer is off
\* (after the rejection of another contract or at the timeout); no message is
\* in flight any more.
EndedByRejection ==
    \E c \in Contracts :
        /\ result[c] = "requested"
        /\ UserRejections(c) # {}
        /\ msgs = {}

\* C39: after a multi-contract transfer has ended by rejection or by timeout
\* no contract, first or not, holds a pending debit or pending deposit of
\* the transfer on any holding.
C39_NoPendingAfterEnd ==
    EndedByRejection
        => \A c \in Contracts : \A k \in DOMAIN cache[c] : ~PendingOn(cache[c][k])

\* ------------------------------------------------------------------------
\* Holdings saved and transactions sent
\* ------------------------------------------------------------------------
\* Transfer.TransferRequest of the first contract of a multi-contract
\* transfer when, after the settlement request was sent, transfer.Save
\* (failing = "save") or Scheduler.ScheduleJob (failing = "schedule") returns
\* an error: the handler returns the error at once.
TransferRequestStoreFails(c, failing) ==
    /\ c \notin handled
    /\ \E i \in 1..Len(transfer.outputs) : transfer.outputs[i].addr = c
    /\ handled' = handled \cup {c}
    /\ first' = firstContractOutputIndex(transfer.assets, Len(transfer.outputs))
    /\ UNCHANGED <<nodeVars, invVars, transfer, opening, moved, frozen, finalized>>
    /\ LET t == transfer
           f == firstContractOutputIndex(t.assets, Len(t.outputs))
           tx == buildSettlementTx(t, At(t.outputs, f).value)
           btc == addBitcoinSettlements(t, tx.outs)
           outs == Append(btc.outs, DataOutput)
           single == transferIsSingleContract(t, c)
           data == addSettlementData(c, t, [ins |-> tx.ins, outs |-> outs], << >>,
                                     cache[c], single)
           boom == findBoomerangIndex(t, c)
           next == nextContractIndex(t, c)
       IN /\ f # NoContract
          /\ At(t.outputs, f).addr = c
          /\ c \notin moved
          /\ ~tx.err
          /\ ~btc.err
          /\ data.res \notin {"reject", "error"}
          /\ ~single
          /\ boom # NoBoomerang
          /\ next \notin {-1, NoContract}
          /\ txStore' = txStore \cup {c}
          /\ log' = Append(log, [Tx("SettlementRequest", c, At(t.outputs, next).addr)
                                   EXCEPT !.spends = <<"transfer", boom>>,
                                          !.settled = data.settled,
                                          !.qty = data.qty])
          /\ msgs' = msgs \cup {Len(log) + 1}
          /\ pending' = IF failing = "save" THEN pending ELSE pending \cup {c}
          /\ result' = [result EXCEPT ![c] = "error"]
          /\ UNCHANGED <<job, statuses, cache>>

NextStore ==
    \/ \E c \in Contracts : TransferRequest(c)
    \/ \E c \in Contracts, failing \in {"save", "schedule"} :
          TransferRequestStoreFails(c, failing)
    \/ \E c \in Contracts : TransferTimeout(c)
    \/ \E i \in msgs : processSettlementRequest(i)
    \/ \E i \in msgs : processSigRequestSettlement(i)
    \/ \E i \in msgs : ProcessRejection(i)
    \/ \E c \in Contracts : SettlementResponse(c)

SpecStore == InitLedger /\ [][NextStore]_vars

\* The step has sent the settlement tx or the settlement request of c.
SentNow(c) ==
    /\ Len(log') = Len(log) + 1
    /\ log'[Len(log')].by = c
    /\ log'[Len(log')].kind \in {"Settlement", "SettlementRequest"}

\* C40: the handler of a transfer request saves the holding changes it
\* computed exactly when it sent its outbound transaction: the debits and
\* deposits of a single-contract transfer with the settlement tx, the pending
\* statuses of a multi-contract transfer with the settlement request, also
\* when saving the pending-transfer record or scheduling the timeout fails
\* after the send.
C40_SavedIffSent ==
    [][\A c \in Contracts :
         (c \notin handled /\ c \in handled')
            => (SentNow(c) <=> cache'[c] # cache[c])]_vars

====
